---- MODULE Spec2Model ----
(***************************************************************************)
(* Datasearch: the dataset store (lib/repositories/dataset.py over the     *)
(* datasets table of lib/models/dataset.py), the HuggingFace incremental   *)
(* fetcher (lib/services/enrichment/client_hf.py), the Kaggle bulk fetcher *)
(* and detail enricher (lib/services/enrichment/kaggle_parser) and the     *)
(* hydrate job (lib/crons/enrich.py).                                      *)
(*                                                                         *)
(* Spec    : the store.  Every repository call is one SQL statement; the   *)
(*           database applies statements one at a time to a row, so the    *)
(*           calls of concurrent jobs are interleaved statement by         *)
(*           statement.                                                    *)
(* SpecHF  : one run of HuggingFaceClient.fetch_latest_datasets against a  *)
(*           listing endpoint that may answer any request with a page, a   *)
(*           404, another HTTP error status or a transport error.          *)
(* SpecRuns: two runs calling mark_enriching on one row concurrently.      *)
(* SpecClock: the status transitions on one row while the clock advances.  *)
(* SpecQuery: get_pending_for_enrichment over the tables the store holds.  *)
(* SpecMeta: one run of MetaKaggleParser.parse_csv_batches.                *)
(* SpecHydrate: one run of enrich_kaggle_datasets with the detail          *)
(*           enricher it calls.                                            *)
(***************************************************************************)
EXTENDS Integers, Sequences, FiniteSets, TLC

VARIABLES
    datasets,        \* the datasets table: row i is the row with id i
    now,             \* the database clock behind func.now()
    written,         \* history: natural key -> {descriptive values last applied}
    created_with,    \* history: id -> enrichment_attempts the row was created with
    enriching_calls, \* history: id -> mark_enriching calls applied to the row
    failed_marks,    \* history: id -> whether mark_failed was applied to the row
    runs,            \* run -> where it is in its mark_enriching call
    hf,              \* the run of HuggingFaceClient.fetch_latest_datasets
    meta,            \* the run of MetaKaggleParser.parse_csv_batches
    hydrate,         \* the run of the enrich_kaggle_datasets job
    query,           \* the work query last answered: arguments and result
    enrichment_logs, \* the dataset_enrichment_logs table, in insertion order
    log_calls,       \* history: <<dataset id, stage>> of each log_enrichment call
    embedder,        \* the EmbeddingService of the container
    seed,            \* the run of the fetch_kaggle_seed job
    embed,           \* the run of the generate_embeddings job
    stats,           \* the run of DatasetRepository.get_stats_by_source
    workers,         \* run -> its logical attempt: position and dataset picked
    latest           \* the run of KaggleAPIClient.fetch_latest_datasets

storeVars == <<datasets, now, written, created_with, enriching_calls, failed_marks>>

vars == <<datasets, now, written, created_with, enriching_calls, failed_marks,
          runs, hf, meta, hydrate, query,
          enrichment_logs, log_calls, embedder, seed, embed,
          stats, workers, latest>>

lateVars == <<stats, workers, latest>>

jobVars == <<enrichment_logs, log_calls, embedder, seed, embed, lateVars>>

(***************************************************************************)
(* Bounds of the model.                                                    *)
(***************************************************************************)
MaxRows == 2          \* rows the table may hold
MaxAttempts == 3      \* cap on enrichment_attempts
MaxBatch == 2         \* longest list handed to bulk_upsert
MaxLimit == 2         \* largest LIMIT of a query

\* default of get_pending_for_enrichment(max_attempts=3)
DEFAULT_MAX_ATTEMPTS == 3

None == "None"
NoTime == 0 - 1
UnknownId == 0

(***************************************************************************)
(* EnrichmentStatus and the Dataset columns.                               *)
(***************************************************************************)
MINIMAL == "minimal"
PENDING == "pending"
ENRICHING == "enriching"
ENRICHED == "enriched"
FAILED == "failed"
SKIPPED == "skipped"

EnrichmentStatus == {MINIMAL, PENDING, ENRICHING, ENRICHED, FAILED, SKIPPED}

Sources == {"kaggle", "huggingface"}
NaturalKeys == {<<"kaggle", "a">>, <<"kaggle", "b">>}
Versions == {1, 2}
Embeddings == {"vec"}
ErrorMessages == {"e1"}

\* the columns the claims call descriptive
DescriptiveFields ==
    {"title", "url", "description", "tags", "license", "download_count",
     "view_count", "like_count", "source_created_at", "source_updated_at",
     "source_meta"}

\* lifecycle columns a caller's Dataset object may carry
Profiles ==
    { [is_active |-> TRUE, enrichment_status |-> MINIMAL,
       enrichment_attempts |-> 0, last_enrichment_error |-> None],
      [is_active |-> TRUE, enrichment_status |-> PENDING,
       enrichment_attempts |-> 0, last_enrichment_error |-> None],
      [is_active |-> FALSE, enrichment_status |-> SKIPPED,
       enrichment_attempts |-> 1, last_enrichment_error |-> "e1"] }

\* a Dataset object: key k, source data of version v, lifecycle columns p
Dataset(k, v, p) ==
    [source_name |-> k[1], external_id |-> k[2],
     title |-> v, url |-> v, description |-> v, tags |-> v, license |-> v,
     file_formats |-> v, total_size_bytes |-> v, column_names |-> v,
     row_count |-> v, download_count |-> v, view_count |-> v, like_count |-> v,
     source_created_at |-> v, source_updated_at |-> v,
     embedding |-> None, static_score |-> None,
     is_active |-> p.is_active, enrichment_status |-> p.enrichment_status,
     enrichment_attempts |-> p.enrichment_attempts,
     last_enrichment_error |-> p.last_enrichment_error,
     last_enriched_at |-> NoTime, last_checked_at |-> NoTime,
     source_meta |-> v]

Incoming == {Dataset(k, v, p) : k \in NaturalKeys, v \in Versions, p \in Profiles}

Key(d) == <<d.source_name, d.external_id>>
Descriptive(d) == [f \in DescriptiveFields |-> d[f]]

(***************************************************************************)
(* upsert / bulk_upsert: INSERT ... ON CONFLICT (source_name, external_id) *)
(* DO UPDATE SET ...                                                       *)
(***************************************************************************)
\* Conflicts without the unique index: nothing ever conflicts
ConflictsWithoutIndex(tbl, d) == {}

\* rows the unique index idx_unique_external_dataset reports as conflicting
Conflicts(tbl, d) ==
    {i \in DOMAIN tbl : tbl[i].source_name = d.source_name
                        /\ tbl[i].external_id = d.external_id}

\* the row INSERT ... VALUES creates: id by uuid4, timestamps by server default
InsertedRow(d, id, t) ==
    [id |-> id, created_at |-> t, updated_at |-> t,
     source_name |-> d.source_name, external_id |-> d.external_id,
     title |-> d.title, url |-> d.url, description |-> d.description,
     tags |-> d.tags, license |-> d.license, file_formats |-> d.file_formats,
     total_size_bytes |-> d.total_size_bytes, column_names |-> d.column_names,
     row_count |-> d.row_count, download_count |-> d.download_count,
     view_count |-> d.view_count, like_count |-> d.like_count,
     source_created_at |-> d.source_created_at,
     source_updated_at |-> d.source_updated_at,
     embedding |-> d.embedding, static_score |-> d.static_score,
     is_active |-> d.is_active, enrichment_status |-> d.enrichment_status,
     enrichment_attempts |-> d.enrichment_attempts,
     last_enrichment_error |-> d.last_enrichment_error,
     last_enriched_at |-> d.last_enriched_at,
     last_checked_at |-> d.last_checked_at,
     source_meta |-> d.source_meta]

\* UpsertSet writing the proposed enrichment_attempts as well
UpsertSetWithAttempts(row, d, t) ==
    [row EXCEPT
        !.title = d.title, !.url = d.url, !.description = d.description,
        !.tags = d.tags, !.license = d.license,
        !.file_formats = d.file_formats,
        !.total_size_bytes = d.total_size_bytes,
        !.column_names = d.column_names, !.row_count = d.row_count,
        !.download_count = d.download_count, !.view_count = d.view_count,
        !.like_count = d.like_count,
        !.source_created_at = d.source_created_at,
        !.source_updated_at = d.source_updated_at,
        !.embedding = d.embedding, !.static_score = d.static_score,
        !.is_active = d.is_active,
        !.enrichment_status = d.enrichment_status,
        !.last_enriched_at = d.last_enriched_at,
        !.source_meta = d.source_meta,
        !.enrichment_attempts = d.enrichment_attempts,
        !.updated_at = t]

\* UpsertSet with 'title' missing from set_
UpsertSetWithoutTitle(row, d, t) ==
    [row EXCEPT
        !.url = d.url, !.description = d.description,
        !.tags = d.tags, !.license = d.license,
        !.file_formats = d.file_formats,
        !.total_size_bytes = d.total_size_bytes,
        !.column_names = d.column_names, !.row_count = d.row_count,
        !.download_count = d.download_count, !.view_count = d.view_count,
        !.like_count = d.like_count,
        !.source_created_at = d.source_created_at,
        !.source_updated_at = d.source_updated_at,
        !.embedding = d.embedding, !.static_score = d.static_score,
        !.is_active = d.is_active,
        !.enrichment_status = d.enrichment_status,
        !.last_enriched_at = d.last_enriched_at,
        !.source_meta = d.source_meta,
        !.updated_at = t]

\* on_conflict_do_update(set_=...) of upsert
UpsertSet(row, d, t) ==
    [row EXCEPT
        !.title = d.title, !.url = d.url, !.description = d.description,
        !.tags = d.tags, !.license = d.license,
        !.file_formats = d.file_formats,
        !.total_size_bytes = d.total_size_bytes,
        !.column_names = d.column_names, !.row_count = d.row_count,
        !.download_count = d.download_count, !.view_count = d.view_count,
        !.like_count = d.like_count,
        !.source_created_at = d.source_created_at,
        !.source_updated_at = d.source_updated_at,
        !.embedding = d.embedding, !.static_score = d.static_score,
        !.is_active = d.is_active,
        !.enrichment_status = d.enrichment_status,
        !.last_enriched_at = d.last_enriched_at,
        !.source_meta = d.source_meta,
        !.updated_at = t]

\* a set_ of bulk_upsert that also takes the attempt counter and the error
\* from the proposed row
BulkUpsertSetWithAttempts(row, d, t) ==
    [row EXCEPT
        !.title = d.title, !.url = d.url, !.description = d.description,
        !.tags = d.tags, !.license = d.license,
        !.file_formats = d.file_formats,
        !.total_size_bytes = d.total_size_bytes,
        !.column_names = d.column_names, !.row_count = d.row_count,
        !.download_count = d.download_count, !.view_count = d.view_count,
        !.like_count = d.like_count,
        !.source_created_at = d.source_created_at,
        !.source_updated_at = d.source_updated_at,
        !.is_active = d.is_active,
        !.enrichment_attempts = d.enrichment_attempts,
        !.last_enrichment_error = d.last_enrichment_error,
        !.source_meta = d.source_meta,
        !.updated_at = t]

\* on_conflict_do_update(set_=...) of bulk_upsert
BulkUpsertSet(row, d, t) ==
    [row EXCEPT
        !.title = d.title, !.url = d.url, !.description = d.description,
        !.tags = d.tags, !.license = d.license,
        !.file_formats = d.file_formats,
        !.total_size_bytes = d.total_size_bytes,
        !.column_names = d.column_names, !.row_count = d.row_count,
        !.download_count = d.download_count, !.view_count = d.view_count,
        !.like_count = d.like_count,
        !.source_created_at = d.source_created_at,
        !.source_updated_at = d.source_updated_at,
        !.is_active = d.is_active,
        !.source_meta = d.source_meta,
        !.updated_at = t]

\* one VALUES row of an upsert statement applied to the table
UpsertRow(tbl, d, t) ==
    IF Conflicts(tbl, d) = {}
    THEN Append(tbl, InsertedRow(d, Len(tbl) + 1, t))
    ELSE [i \in DOMAIN tbl |->
            IF i \in Conflicts(tbl, d) THEN UpsertSet(tbl[i], d, t) ELSE tbl[i]]

\* one VALUES row of a bulk_upsert statement applied to the table
BulkUpsertRow(tbl, d, t) ==
    IF Conflicts(tbl, d) = {}
    THEN Append(tbl, InsertedRow(d, Len(tbl) + 1, t))
    ELSE [i \in DOMAIN tbl |->
            IF i \in Conflicts(tbl, d) THEN BulkUpsertSet(tbl[i], d, t) ELSE tbl[i]]

RECURSIVE BulkUpsertRows(_, _, _)
BulkUpsertRows(tbl, ds, t) ==
    IF ds = <<>> THEN tbl
    ELSE BulkUpsertRows(BulkUpsertRow(tbl, Head(ds), t), Tail(ds), t)

\* a multi-row INSERT ... ON CONFLICT DO UPDATE that proposes one key twice is
\* rejected by the database as a whole
ProposesKeyTwice(ds) ==
    \E i, j \in DOMAIN ds : i # j /\ Key(ds[i]) = Key(ds[j])

RECURSIVE NoteWritten(_, _)
NoteWritten(w, ds) ==
    IF ds = <<>> THEN w
    ELSE NoteWritten([w EXCEPT ![Key(Head(ds))] = {Descriptive(Head(ds))}],
                     Tail(ds))

NoteCreated(tbl) ==
    [i \in DOMAIN tbl |->
        IF i \in DOMAIN created_with THEN created_with[i]
        ELSE tbl[i].enrichment_attempts]

NoteCalls(tbl) ==
    [i \in DOMAIN tbl |->
        IF i \in DOMAIN enriching_calls THEN enriching_calls[i] ELSE 0]

NoteFailed(tbl) ==
    [i \in DOMAIN tbl |->
        IF i \in DOMAIN failed_marks THEN failed_marks[i] ELSE FALSE]

Fits(tbl) == Len(tbl) <= MaxRows

upsert(d) ==
    /\ datasets' = UpsertRow(datasets, d, now)
    /\ Fits(datasets')
    /\ written' = NoteWritten(written, <<d>>)
    /\ created_with' = NoteCreated(datasets')
    /\ enriching_calls' = NoteCalls(datasets')
    /\ failed_marks' = NoteFailed(datasets')
    /\ UNCHANGED now

bulk_upsert(ds) ==
    \/ /\ ds = <<>>
       /\ UNCHANGED <<storeVars, runs>>
    \/ /\ ds # <<>>
       /\ ProposesKeyTwice(ds)
       /\ UNCHANGED <<storeVars, runs>>
    \/ /\ ds # <<>>
       /\ ~ProposesKeyTwice(ds)
       /\ datasets' = BulkUpsertRows(datasets, ds, now)
       /\ Fits(datasets')
       /\ written' = NoteWritten(written, ds)
       /\ created_with' = NoteCreated(datasets')
       /\ enriching_calls' = NoteCalls(datasets')
       /\ failed_marks' = NoteFailed(datasets')
       /\ UNCHANGED now

(***************************************************************************)
(* Status transitions: UPDATE datasets SET ... WHERE id = :dataset_id.     *)
(* updated_at follows the column's onupdate=func.now().                    *)
(***************************************************************************)
\* EnrichingValues without the increment
EnrichingValuesWithoutIncrement(row, t) ==
    [row EXCEPT !.enrichment_status = ENRICHING, !.updated_at = t]

\* EnrichingValues writing the counter of a freshly loaded object plus one
\* instead of incrementing the column in place
EnrichingValuesFromObject(row, t) ==
    [row EXCEPT !.enrichment_status = ENRICHING,
                !.enrichment_attempts = 1,
                !.updated_at = t]

\* .values(...) of mark_enriching, evaluated by the database on the stored row
EnrichingValues(row, t) ==
    [row EXCEPT !.enrichment_status = ENRICHING,
                !.enrichment_attempts = row.enrichment_attempts + 1,
                !.updated_at = t]

\* values of mark_enriched that always carry the embedding argument
EnrichedValuesAlwaysEmbedding(row, embedding, t) ==
    [row EXCEPT !.enrichment_status = ENRICHED, !.last_enriched_at = t,
                !.embedding = embedding, !.updated_at = t]

\* values of mark_enriched: the embedding is written only when one is given
EnrichedValues(row, embedding, t) ==
    IF embedding # None
    THEN [row EXCEPT !.enrichment_status = ENRICHED, !.last_enriched_at = t,
                     !.embedding = embedding, !.updated_at = t]
    ELSE [row EXCEPT !.enrichment_status = ENRICHED, !.last_enriched_at = t,
                     !.updated_at = t]

\* FailedValues without is_active=False
FailedValuesStillActive(row, error_message, t) ==
    [row EXCEPT !.enrichment_status = FAILED,
                !.last_enrichment_error = error_message,
                !.updated_at = t]

\* .values(...) of mark_failed
FailedValues(row, error_message, t) ==
    [row EXCEPT !.enrichment_status = FAILED,
                !.last_enrichment_error = error_message,
                !.is_active = FALSE,
                !.updated_at = t]

\* WHERE Dataset.id == dataset_id
WhereId(tbl, dataset_id) == {i \in DOMAIN tbl : tbl[i].id = dataset_id}

mark_enriching(dataset_id) ==
    /\ \A i \in WhereId(datasets, dataset_id) :
            datasets[i].enrichment_attempts < MaxAttempts
    /\ datasets' = [i \in DOMAIN datasets |->
                      IF i \in WhereId(datasets, dataset_id)
                      THEN EnrichingValues(datasets[i], now) ELSE datasets[i]]
    /\ enriching_calls' = [i \in DOMAIN datasets |->
                      IF i \in WhereId(datasets, dataset_id)
                      THEN enriching_calls[i] + 1 ELSE enriching_calls[i]]
    /\ UNCHANGED <<now, written, created_with, failed_marks>>

mark_enriched(dataset_id, embedding) ==
    /\ datasets' = [i \in DOMAIN datasets |->
                      IF i \in WhereId(datasets, dataset_id)
                      THEN EnrichedValues(datasets[i], embedding, now)
                      ELSE datasets[i]]
    /\ UNCHANGED <<now, written, created_with, enriching_calls, failed_marks>>

mark_failed(dataset_id, error_message) ==
    /\ datasets' = [i \in DOMAIN datasets |->
                      IF i \in WhereId(datasets, dataset_id)
                      THEN FailedValues(datasets[i], error_message, now)
                      ELSE datasets[i]]
    /\ failed_marks' = [i \in DOMAIN datasets |->
                      failed_marks[i] \/ i \in WhereId(datasets, dataset_id)]
    /\ UNCHANGED <<now, written, created_with, enriching_calls>>

(***************************************************************************)
(* Work queries.  A query result is a list of rows; rows that tie in the   *)
(* ORDER BY, and the rows a LIMIT keeps when there is no ORDER BY, are the *)
(* database's choice, so each operator gives every list the query may      *)
(* return.                                                                 *)
(***************************************************************************)
Min(a, b) == IF a <= b THEN a ELSE b

\* every listing of the row set S of tbl, each row once
Listings(tbl, S) ==
    {o \in [1..Cardinality(S) -> S] : \A i, j \in DOMAIN o : i # j => o[i] # o[j]}

\* PendingWhere that takes rows in status enriching as well
PendingWhereWithEnriching(row, source_name, max_attempts) ==
    /\ row.source_name = source_name
    /\ \/ row.enrichment_status = MINIMAL
       \/ row.enrichment_status = PENDING
       \/ row.enrichment_status = ENRICHING
    /\ row.enrichment_attempts < max_attempts
    /\ row.is_active

\* PendingWhere without the attempt ceiling
PendingWhereAnyAttempts(row, source_name, max_attempts) ==
    /\ row.source_name = source_name
    /\ \/ row.enrichment_status = MINIMAL
       \/ row.enrichment_status = PENDING
    /\ row.is_active

\* WHERE of get_pending_for_enrichment
PendingWhere(row, source_name, max_attempts) ==
    /\ row.source_name = source_name
    /\ \/ row.enrichment_status = MINIMAL
       \/ row.enrichment_status = PENDING
    /\ row.enrichment_attempts < max_attempts
    /\ row.is_active

\* a get_pending_for_enrichment that leaves out ORDER BY created_at
get_pending_for_enrichmentUnordered(tbl, source_name, limit, max_attempts) ==
    LET S == {i \in DOMAIN tbl : PendingWhere(tbl[i], source_name, max_attempts)}
    IN  {[i \in 1..Min(limit, Len(o)) |-> tbl[o[i]]] : o \in Listings(tbl, S)}

get_pending_for_enrichment(tbl, source_name, limit, max_attempts) ==
    LET S == {i \in DOMAIN tbl : PendingWhere(tbl[i], source_name, max_attempts)}
        ordered == {o \in Listings(tbl, S) :
                      \A i, j \in DOMAIN o :
                         i < j => tbl[o[i]].created_at <= tbl[o[j]].created_at}
    IN  {[i \in 1..Min(limit, Len(o)) |-> tbl[o[i]]] : o \in ordered}

\* EmbeddingWhere without the test for a missing embedding
EmbeddingWhereAnyEmbedding(row) ==
    /\ row.enrichment_status = ENRICHED
    /\ row.is_active

\* WHERE of get_for_embedding_generation
EmbeddingWhere(row) ==
    /\ row.enrichment_status = ENRICHED
    /\ row.embedding = None
    /\ row.is_active

get_for_embedding_generation(tbl, limit) ==
    LET S == {i \in DOMAIN tbl : EmbeddingWhere(tbl[i])}
    IN  {[i \in 1..Min(limit, Len(o)) |-> tbl[o[i]]] : o \in Listings(tbl, S)}

\* the ids handed to the status transitions: the first row's, or an id no row has
Ids == {UnknownId, 1}

\* the lists handed to bulk_upsert: up to MaxBatch rows of one fetch, which
\* share the version of the source data and the lifecycle columns
Batches ==
    {[i \in DOMAIN ks |-> Dataset(ks[i], v, p)] :
        ks \in UNION {[1..n -> NaturalKeys] : n \in 0..MaxBatch},
        v \in Versions, p \in Profiles}

(***************************************************************************)
(* HuggingFaceClient.fetch_latest_datasets.                                *)
(*                                                                         *)
(* hf is the frame of one call: its arguments (limit, batch_size,          *)
(* min_last_modified), its locals (offset, fetched_count, raw_data), the   *)
(* attempt number of the retrying _fetch_page, the batches yielded so far, *)
(* and the listing the endpoint serves (catalog).  History fields:         *)
(* not_found tells whether a GET was answered 404, gets_after_not_found    *)
(* counts the GETs issued after that answer, faults tells whether any GET  *)
(* failed.                                                                 *)
(***************************************************************************)
MaxCatalog == 3       \* records the endpoint lists
MaxBatchSize == 2     \* largest batch_size argument
MaxFetchLimit == 3    \* largest limit argument
MaxStamp == 2         \* latest timestamp of a record

\* stop_after_attempt(5)
STOP_AFTER_ATTEMPT == 5

\* datetime.now(timezone.utc) of a run: later than every timestamp of a record
HFNow == MaxStamp + 1

\* raw items of the listing: valid tells whether HFDatasetDTO.model_validate
\* accepts the item
RawItems ==
    {[valid |-> FALSE, last_modified |-> NoTime, created_at |-> NoTime]}
    \cup {[valid |-> TRUE, last_modified |-> t, created_at |-> NoTime] :
            t \in 1..MaxStamp}
    \cup {[valid |-> TRUE, last_modified |-> NoTime, created_at |-> 1],
          [valid |-> TRUE, last_modified |-> NoTime, created_at |-> NoTime]}

\* HFDatasetDTO.get_update_time
get_update_time(dto) ==
    IF dto.last_modified # NoTime THEN dto.last_modified
    ELSE IF dto.created_at # NoTime THEN dto.created_at
    ELSE HFNow

\* the listing is served most recently modified first (sort=lastModified,
\* direction=-1)
SortedDescending(c) ==
    \A i, j \in DOMAIN c :
        (i < j /\ c[i].valid /\ c[j].valid)
            => get_update_time(c[i]) >= get_update_time(c[j])

Catalogs ==
    {c \in UNION {[1..n -> RawItems] : n \in 0..MaxCatalog} : SortedDescending(c)}

\* answers of the endpoint to one GET
OK == "200"
NOT_FOUND == "404"
HttpStatusErrors == {NOT_FOUND, "401", "500"}
TransportErrors == {"ConnectError", "TimeoutException"}
Responses == {OK} \cup HttpStatusErrors \cup TransportErrors

\* retry_if_exception_type((ConnectError, TimeoutException, HTTPStatusError))
RetriedExceptions == TransportErrors \cup HttpStatusErrors

\* the page the endpoint serves for limit=batch_size, offset=offset
PageAt(c, offset, batch_size) ==
    SubSeq(c, offset + 1, Min(offset + batch_size, Len(c)))

\* _should_stop_pagination
_should_stop_pagination(raw_data, batch_size) ==
    raw_data = <<>> \/ Len(raw_data) < batch_size

\* _is_dataset_too_old
_is_dataset_too_old(dto, min_last_modified) ==
    IF min_last_modified = NoTime THEN FALSE
    ELSE get_update_time(dto) < min_last_modified

\* _process_raw_batch: <<batch_dtos, should_stop>>
RECURSIVE ProcessFrom(_, _, _)
ProcessFrom(raw_data, min_last_modified, batch_dtos) ==
    IF raw_data = <<>> THEN <<batch_dtos, FALSE>>
    ELSE IF ~Head(raw_data).valid
         THEN ProcessFrom(Tail(raw_data), min_last_modified, batch_dtos)
    ELSE IF _is_dataset_too_old(Head(raw_data), min_last_modified)
         THEN <<batch_dtos, TRUE>>
    ELSE ProcessFrom(Tail(raw_data), min_last_modified,
                     Append(batch_dtos, Head(raw_data)))

\* a _process_raw_batch that takes a record failing validation for an old one
\* and stops at it
_process_raw_batchStoppingOnInvalid(raw_data, min_last_modified) ==
    LET bad == {i \in DOMAIN raw_data : ~raw_data[i].valid}
        first == CHOOSE i \in bad : \A j \in bad : i <= j
    IN  IF bad = {} THEN ProcessFrom(raw_data, min_last_modified, <<>>)
        ELSE <<ProcessFrom(SubSeq(raw_data, 1, first - 1),
                           min_last_modified, <<>>)[1], TRUE>>

_process_raw_batch(raw_data, min_last_modified) ==
    ProcessFrom(raw_data, min_last_modified, <<>>)

HFIdle ==
    [pc |-> "idle", catalog |-> <<>>, limit |-> 0, batch_size |-> 0,
     min_last_modified |-> NoTime, offset |-> 0, fetched_count |-> 0,
     raw_data |-> <<>>, attempt |-> 0, yielded |-> <<>>, raised |-> None,
     not_found |-> FALSE, gets_after_not_found |-> 0, faults |-> FALSE]

\* the call: offset = 0, fetched_count = 0
HFCall(c, limit, batch_size, min_last_modified) ==
    [HFIdle EXCEPT !.pc = "loop", !.catalog = c, !.limit = limit,
                   !.batch_size = batch_size,
                   !.min_last_modified = min_last_modified]

\* while fetched_count < limit
LoopTest ==
    /\ hf.pc = "loop"
    /\ hf' = IF hf.fetched_count < hf.limit
             THEN [hf EXCEPT !.pc = "fetch", !.attempt = 1]
             ELSE [hf EXCEPT !.pc = "done"]
    /\ UNCHANGED <<storeVars, runs, meta, hydrate, query, jobVars>>

NoteRequest(h, response) ==
    [h EXCEPT !.gets_after_not_found =
                  IF h.not_found THEN h.gets_after_not_found + 1
                  ELSE h.gets_after_not_found,
              !.not_found = h.not_found \/ response = NOT_FOUND,
              !.faults = h.faults \/ response # OK]

\* a retry decision with a ceiling one attempt too high
RetriesOnceMore(response, attempt) ==
    response \in RetriedExceptions /\ attempt < STOP_AFTER_ATTEMPT + 1

\* tenacity: the call is made again when the exception is one of the retried
\* types and fewer than stop_after_attempt attempts were made
Retries(response, attempt) ==
    response \in RetriedExceptions /\ attempt < STOP_AFTER_ATTEMPT

\* one attempt of _fetch_page inside _fetch_single_batch
\* (client.get, raise_for_status, the retry decision, the except clause)
FetchPage(response) ==
    /\ hf.pc = "fetch"
    /\ LET h == NoteRequest(hf, response)
       IN  hf' =
             IF response = OK
             THEN [h EXCEPT !.pc = "page",
                            !.raw_data = PageAt(h.catalog, h.offset, h.batch_size)]
             ELSE IF Retries(response, h.attempt)
             THEN [h EXCEPT !.attempt = h.attempt + 1]
             ELSE IF response = NOT_FOUND
             THEN [h EXCEPT !.pc = "done"]
             ELSE [h EXCEPT !.pc = "raised", !.raised = response]
    /\ UNCHANGED <<storeVars, runs, meta, hydrate, query, jobVars>>

\* the body of the loop after a page arrived
HandlePage ==
    /\ hf.pc = "page"
    /\ LET processed == _process_raw_batch(hf.raw_data, hf.min_last_modified)
           batch_dtos == processed[1]
           should_stop == processed[2]
           h == IF batch_dtos # <<>>
                THEN [hf EXCEPT !.yielded = Append(hf.yielded, batch_dtos),
                                !.fetched_count = hf.fetched_count + Len(batch_dtos)]
                ELSE hf
       IN  hf' =
             IF _should_stop_pagination(hf.raw_data, hf.batch_size)
             THEN [hf EXCEPT !.pc = "done"]
             ELSE IF should_stop
             THEN [h EXCEPT !.pc = "done"]
             ELSE [h EXCEPT !.pc = "loop", !.offset = h.offset + h.batch_size]
    /\ UNCHANGED <<storeVars, runs, meta, hydrate, query, jobVars>>

(***************************************************************************)
(* The bulk fetcher: one run of MetaKaggleParser.parse_csv_batches over    *)
(* the cached Datasets.csv.  A row of the file has its Id (its position),  *)
(* its LastActivityDate (NoTime when the cell is empty, NaT after          *)
(* parse_dates) and valid, which tells whether KaggleMetaDatasetDTO        *)
(* accepts the row.  meta holds the file, the arguments, the dataframe df  *)
(* as it goes through load, filter and sort, the loop index i of           *)
(* _yield_batches, the batches yielded and the number of rows whose        *)
(* conversion failed and was logged.                                       *)
(***************************************************************************)
MaxFrame == 3         \* rows of Datasets.csv

CsvRows ==
    [Id : 1..MaxFrame, valid : BOOLEAN, LastActivityDate : {NoTime} \cup (1..MaxStamp)]

\* the files: row i has Id i
Frames ==
    {df \in UNION {[1..n -> CsvRows] : n \in 0..MaxFrame} :
        \A i \in DOMAIN df : df[i].Id = i}

\* min_last_activity arguments: none, or a date up to one past the latest
MinDates == {NoTime} \cup (1..HFNow)

\* pd.isna(df['LastActivityDate'])
isna(date) == date = NoTime

\* a filter that compares only: NaT >= min_date is False in pandas
_filter_by_dateComparingOnly(df, min_date) ==
    IF min_date = NoTime THEN df
    ELSE SelectSeq(df, LAMBDA row : row.LastActivityDate >= min_date)

\* MetaKaggleParser._filter_by_date
_filter_by_date(df, min_date) ==
    IF min_date = NoTime THEN df
    ELSE SelectSeq(df, LAMBDA row :
                         \/ isna(row.LastActivityDate)
                         \/ row.LastActivityDate >= min_date)

\* sort_values('LastActivityDate', ascending=False, na_position='last'):
\* latest first, rows without a date last
ActivityOrdered(df) ==
    \A i, j \in DOMAIN df :
        i < j => \/ isna(df[j].LastActivityDate)
                 \/ /\ ~isna(df[i].LastActivityDate)
                    /\ df[i].LastActivityDate >= df[j].LastActivityDate

\* a sort that only permutes
_sort_by_activityAnyOrder(df) ==
    {sorted \in [DOMAIN df -> {df[i] : i \in DOMAIN df}] :
        \A i \in DOMAIN df : \E j \in DOMAIN df : sorted[j] = df[i]}

\* MetaKaggleParser._sort_by_activity: the default sort of sort_values is not
\* stable, so rows with equal dates come out in any order
_sort_by_activity(df) ==
    {sorted \in [DOMAIN df -> {df[i] : i \in DOMAIN df}] :
        /\ \A i \in DOMAIN df : \E j \in DOMAIN df : sorted[j] = df[i]
        /\ ActivityOrdered(sorted)}

RECURSIVE _convert_to_dtosAborting(_)
\* a conversion that gives up at the first row KaggleMetaDatasetDTO rejects
_convert_to_dtosAborting(df) ==
    IF df = <<>> \/ ~Head(df).valid THEN <<>>
    ELSE <<Head(df)>> \o _convert_to_dtosAborting(Tail(df))

\* MetaKaggleParser._convert_to_dtos: the rows KaggleMetaDatasetDTO accepts
_convert_to_dtos(df) == SelectSeq(df, LAMBDA row : row.valid)

\* df.iloc[i:i + batch_size]
iloc(df, i, batch_size) == SubSeq(df, i + 1, Min(i + batch_size, Len(df)))

MetaIdle ==
    [pc |-> "idle", csv_exists |-> FALSE, csv |-> <<>>, batch_size |-> 0,
     min_last_activity |-> NoTime, df |-> <<>>, i |-> 0, yielded |-> <<>>,
     failures |-> 0]

\* the call parse_csv_batches(batch_size, min_last_activity)
MetaCall(csv_exists, csv, batch_size, min_last_activity) ==
    [MetaIdle EXCEPT !.pc = "load", !.csv_exists = csv_exists, !.csv = csv,
                     !.batch_size = batch_size,
                     !.min_last_activity = min_last_activity]

\* if not csv_path.exists(): return;  df = await self._load_csv(csv_path)
LoadCsv ==
    /\ meta.pc = "load"
    /\ meta' = IF meta.csv_exists
               THEN [meta EXCEPT !.pc = "filter", !.df = meta.csv]
               ELSE [meta EXCEPT !.pc = "done"]
    /\ UNCHANGED <<storeVars, runs, hf, hydrate, query, jobVars>>

\* df = self._filter_by_date(df=df, min_date=min_last_activity)
FilterByDate ==
    /\ meta.pc = "filter"
    /\ meta' = [meta EXCEPT !.pc = "sort",
                            !.df = _filter_by_date(meta.df, meta.min_last_activity)]
    /\ UNCHANGED <<storeVars, runs, hf, hydrate, query, jobVars>>

\* df = self._sort_by_activity(df=df)
SortByActivity ==
    /\ meta.pc = "sort"
    /\ \E sorted \in _sort_by_activity(meta.df) :
          meta' = [meta EXCEPT !.pc = "batches", !.df = sorted, !.i = 0]
    /\ UNCHANGED <<storeVars, runs, hf, hydrate, query, jobVars>>

\* one turn of the loop of _yield_batches: for i in range(0, total, batch_size)
YieldBatch ==
    /\ meta.pc = "batches"
    /\ meta' =
         IF meta.i < Len(meta.df)
         THEN LET batch_df == iloc(meta.df, meta.i, meta.batch_size)
                  batch_dtos == _convert_to_dtos(batch_df)
              IN  [meta EXCEPT
                     !.i = meta.i + meta.batch_size,
                     !.failures = meta.failures + Len(batch_df) - Len(batch_dtos),
                     !.yielded = IF batch_dtos # <<>>
                                 THEN Append(meta.yielded, batch_dtos)
                                 ELSE meta.yielded]
         ELSE [meta EXCEPT !.pc = "done"]
    /\ UNCHANGED <<storeVars, runs, hf, hydrate, query, jobVars>>

(***************************************************************************)
(* The hydrate job: one run of enrich_kaggle_datasets(dataset_refs,        *)
(* batch_size), with the detail enricher it calls for every reference      *)
(* (KaggleClient.enrich_dataset_by_ref -> KaggleAPIClient.                 *)
(* fetch_single_dataset -> _fetch_with_retry -> _fetch_dataset_files).     *)
(* hydrate holds the arguments, the loop position (i: start of the slice,  *)
(* j: position in the slice), the two counters, the references passed to   *)
(* enrich_dataset_by_ref so far (calls), and for the reference in hand the *)
(* outcome of dataset_view (view), of dataset_list_files (files), the      *)
(* number of dataset_view calls (attempts) and what fetch_single_dataset   *)
(* returned (result).  sleeps counts the throttle pauses (asyncio.sleep)   *)
(* the job and the calls it makes go through: the code has none on this    *)
(* path, the only pause of KaggleAPIClient is in _enrich_datasets_batch.   *)
(***************************************************************************)
MaxRefs == 3          \* references handed to the job

\* APIConsts.MAX_RETRY_ATTEMPTS
MAX_RETRY_ATTEMPTS == 3

DatasetRefs == {"o/a", "o/b"}
RefLists == UNION {[1..n -> DatasetRefs] : n \in 0..MaxRefs}
HydrateBatchSizes == 1..(MaxRefs + 1)

\* what self.api.dataset_view(dataset_ref) does: it raises ("error"), returns an
\* object without one of the attributes _build_dataset_dict reads
\* ("malformed"), returns an object KaggleEnrichedDatasetDTO rejects, e.g.
\* title None ("invalid"), or returns a well-formed detail ("detail")
ViewOutcomes == {"error", "malformed", "invalid", "detail"}

\* what self.api.dataset_list_files(dataset_ref).files does: it raises
\* ("error"), returns no file ("empty") or returns files ("listed")
FilesOutcomes == {"error", "empty", "listed"}

\* [self._build_file_dict(file=file) for file in files]
FileDicts(outcome) == IF outcome = "listed" THEN <<"f.csv">> ELSE <<>>

\* KaggleEnrichedDatasetDTO(**dataset_data)
KaggleEnrichedDatasetDTO(ref, data) == [ref |-> ref, data |-> data]

\* fetch_single_dataset returned None; a DTO it returned is held as {dto}
NoResult == {}

HydrateIdle ==
    [pc |-> "idle", dataset_refs |-> <<>>, batch_size |-> 0, i |-> 0, j |-> 0,
     enriched_count |-> 0, failed_count |-> 0, calls |-> <<>>,
     view |-> None, files |-> None, attempts |-> 0, result |-> NoResult,
     sleeps |-> 0]

\* the call enrich_kaggle_datasets(dataset_refs, batch_size)
HydrateCall(dataset_refs, batch_size) ==
    [HydrateIdle EXCEPT !.pc = "loop", !.dataset_refs = dataset_refs,
                        !.batch_size = batch_size]

\* batch = dataset_refs[i:i + batch_size]
Slice(h) ==
    SubSeq(h.dataset_refs, h.i + 1, Min(h.i + h.batch_size, Len(h.dataset_refs)))

\* the reference in hand
CurrentRef(h) == Slice(h)[h.j + 1]

\* what fetch_single_dataset makes of a dataset_view that returned: None when
\* the file listing failed
fetch_single_datasetDroppingDetail(ref, view, files) ==
    IF view = "invalid" \/ files = "error" THEN NoResult
    ELSE {KaggleEnrichedDatasetDTO(ref, FileDicts(files))}

\* what fetch_single_dataset makes of a dataset_view that returned (view) and
\* of the outcome of the file listing (files): _fetch_dataset_files gives [] for
\* an exception, dataset_dict['data'] = files_list, and the DTO is built; a
\* validation error is caught and gives None
fetch_single_dataset(ref, view, files) ==
    LET files_list == IF files = "error" THEN <<>> ELSE FileDicts(files)
    IN  IF view = "invalid" THEN NoResult
        ELSE {KaggleEnrichedDatasetDTO(ref, files_list)}

\* a loop that leaves the slice after its first reference
NextTurnLeavingSlice(h) ==
    [h EXCEPT !.pc = "loop", !.j = 0, !.i = h.i + h.batch_size]

\* the end of one turn of "for ref in batch": the next ref of the slice, or the
\* next slice
NextTurn(h) ==
    IF h.j + 1 < Len(Slice(h))
    THEN [h EXCEPT !.pc = "loop", !.j = h.j + 1]
    ELSE [h EXCEPT !.pc = "loop", !.j = 0, !.i = h.i + h.batch_size]

\* for i in range(0, len(dataset_refs), batch_size): for ref in batch:
\*     enriched_dto = await kaggle_client.enrich_dataset_by_ref(ref)
CallEnrich ==
    /\ hydrate.pc = "loop"
    /\ hydrate' =
         IF hydrate.i < Len(hydrate.dataset_refs)
         THEN [hydrate EXCEPT !.pc = "view",
                              !.calls = Append(hydrate.calls, CurrentRef(hydrate)),
                              !.view = None, !.files = None, !.attempts = 0,
                              !.result = NoResult]
         ELSE [hydrate EXCEPT !.pc = "done"]
    /\ UNCHANGED <<storeVars, runs, hf, meta, query, jobVars>>

\* _fetch_with_retry: dataset_view and _build_dataset_dict inside try/except
\* Exception that returns None, so the decorator never sees an exception and
\* fetch_single_dataset returns None for a None
DatasetView(outcome) ==
    /\ hydrate.pc = "view"
    /\ hydrate' =
         IF outcome \in {"error", "malformed"}
         THEN [hydrate EXCEPT !.pc = "count", !.view = outcome,
                              !.attempts = hydrate.attempts + 1,
                              !.result = NoResult]
         ELSE [hydrate EXCEPT !.pc = "files", !.view = outcome,
                              !.attempts = hydrate.attempts + 1]
    /\ UNCHANGED <<storeVars, runs, hf, meta, query, jobVars>>

\* _fetch_dataset_files is called and fetch_single_dataset returns
ListFiles(outcome) ==
    /\ hydrate.pc = "files"
    /\ hydrate' =
         [hydrate EXCEPT
            !.pc = "count", !.files = outcome,
            !.result = fetch_single_dataset(CurrentRef(hydrate), hydrate.view,
                                            outcome)]
    /\ UNCHANGED <<storeVars, runs, hf, meta, query, jobVars>>

\* if enriched_dto: enriched_count += 1  else: failed_count += 1
Count ==
    /\ hydrate.pc = "count"
    /\ hydrate' =
         IF hydrate.result # NoResult
         THEN NextTurn([hydrate EXCEPT !.enriched_count = hydrate.enriched_count + 1])
         ELSE NextTurn([hydrate EXCEPT !.failed_count = hydrate.failed_count + 1])
    /\ UNCHANGED <<storeVars, runs, hf, meta, query, jobVars>>

\* except Exception as e: failed_count += 1 -- enrich_dataset_by_ref raised
\* before the try block of fetch_single_dataset was entered
EnrichRaises ==
    /\ hydrate.pc = "view"
    /\ hydrate' = NextTurn([hydrate EXCEPT
                              !.failed_count = hydrate.failed_count + 1,
                              !.view = "raised"])
    /\ UNCHANGED <<storeVars, runs, hf, meta, query, jobVars>>

(***************************************************************************)
(* A caller of the work queries.  query holds the arguments of the last    *)
(* call of get_pending_for_enrichment and the list the database returned.  *)
(***************************************************************************)
QueryIdle ==
    [op |-> "idle", source_name |-> None, limit |-> 0, max_attempts |-> 0,
     result |-> <<>>]

\* result = await self.session.execute(select(Dataset)...);
\* return list(result.scalars().all())
AskPending(source_name, limit, max_attempts) ==
    /\ \E result \in get_pending_for_enrichment(datasets, source_name, limit,
                                                max_attempts) :
          query' = [op |-> "pending", source_name |-> source_name,
                    limit |-> limit, max_attempts |-> max_attempts,
                    result |-> result]
    /\ UNCHANGED <<storeVars, runs, hf, meta, hydrate, jobVars>>

(***************************************************************************)
(* The enrichment log: table dataset_enrichment_logs behind                *)
(* EnrichmentLogRepository, and the CRUD operations both repositories      *)
(* inherit from BaseRepository.  Row i of enrichment_logs is the i-th row  *)
(* in insertion order; log_calls lists the dataset id and stage of every   *)
(* log_enrichment call that returned.  Transactions (commit, rollback)     *)
(* are not modelled: every statement takes effect when it is flushed.      *)
(***************************************************************************)
MaxLogs == 2          \* log_enrichment calls

\* EnrichmentStage and EnrichmentResult: two values of each
Stages == {"api_metadata", "embedding"}
Results == {"success", "failed"}
AttemptNumbers == {1}

\* DatasetEnrichmentLog(dataset_id=..., stage=..., result=..., attempt_number=...)
DatasetEnrichmentLog(dataset_id, stage, result, attempt_number) ==
    [dataset_id |-> dataset_id, stage |-> stage, result |-> result,
     attempt_number |-> attempt_number]

NoLogCalls == <<>>

\* the table without the row at position i
Without(tbl, i) ==
    [k \in 1..(Len(tbl) - 1) |-> IF k < i THEN tbl[k] ELSE tbl[k + 1]]

\* ForeignKey("datasets.id", ondelete="CASCADE"): the log rows that stay when
\* the dataset with id dataset_id is deleted
RECURSIVE Cascade(_, _)
Cascade(logs, dataset_id) ==
    IF logs = <<>> THEN <<>>
    ELSE IF Head(logs).dataset_id = dataset_id
         THEN Cascade(Tail(logs), dataset_id)
         ELSE <<Head(logs)>> \o Cascade(Tail(logs), dataset_id)

\* SELECT count(id) WHERE dataset_id = :dataset_id AND stage = :stage
count_attempts_by_dataset(logs, dataset_id, stage) ==
    Cardinality({i \in DOMAIN logs :
                    /\ logs[i].dataset_id = dataset_id
                    /\ logs[i].stage = stage})

\* log_enrichment: build the row and create() it (session.add, flush); the
\* foreign key rejects a dataset_id no dataset has
LogEnrichment(dataset_id, stage, result, attempt_number) ==
    /\ Len(log_calls) < MaxLogs
    /\ WhereId(datasets, dataset_id) # {}
    /\ enrichment_logs' =
         Append(enrichment_logs,
                DatasetEnrichmentLog(dataset_id, stage, result, attempt_number))
    /\ log_calls' = Append(log_calls, <<dataset_id, stage>>)
    /\ UNCHANGED <<storeVars, runs, hf, meta, hydrate, query, embedder, seed, embed,
                   lateVars>>

\* BaseRepository.update on a loaded log row whose stage or result the caller
\* changed: flush writes the change
UpdateLog(i, stage, result) ==
    /\ i \in DOMAIN enrichment_logs
    /\ <<enrichment_logs[i].stage, enrichment_logs[i].result>> # <<stage, result>>
    /\ enrichment_logs' = [enrichment_logs EXCEPT ![i].stage = stage,
                                                   ![i].result = result]
    /\ UNCHANGED <<storeVars, runs, hf, meta, hydrate, query, log_calls,
                   embedder, seed, embed,
                   lateVars>>

\* BaseRepository.delete on a loaded log row
DeleteLog(i) ==
    /\ i \in DOMAIN enrichment_logs
    /\ enrichment_logs' = Without(enrichment_logs, i)
    /\ UNCHANGED <<storeVars, runs, hf, meta, hydrate, query, log_calls,
                   embedder, seed, embed,
                   lateVars>>

\* BaseRepository.create on a new Dataset: session.add, flush (a plain INSERT,
\* which the unique index rejects for a stored key)
CreateDataset(d) ==
    /\ Conflicts(datasets, d) = {}
    /\ datasets' = Append(datasets, InsertedRow(d, Len(datasets) + 1, now))
    /\ Fits(datasets')
    /\ written' = NoteWritten(written, <<d>>)
    /\ created_with' = NoteCreated(datasets')
    /\ enriching_calls' = NoteCalls(datasets')
    /\ failed_marks' = NoteFailed(datasets')
    /\ UNCHANGED <<now, runs, hf, meta, hydrate, query, jobVars>>

\* BaseRepository.delete on a loaded Dataset: DELETE FROM datasets WHERE id =
\* :id, and the database deletes the log rows of the dataset with it.  The
\* entity is the row created last, so that row i stays the row with id i.
DeleteDataset ==
    /\ datasets # <<>>
    /\ LET i == Len(datasets)
       IN  /\ datasets' = Without(datasets, i)
           /\ created_with' = Without(created_with, i)
           /\ enriching_calls' = Without(enriching_calls, i)
           /\ failed_marks' = Without(failed_marks, i)
           /\ enrichment_logs' = Cascade(enrichment_logs, datasets[i].id)
    /\ UNCHANGED <<now, written, runs, hf, meta, hydrate, query, log_calls,
                   embedder, seed, embed,
                   lateVars>>

(***************************************************************************)
(* EmbeddingService.  embedder holds the two private attributes, the       *)
(* number of times SentenceTransformer(...) was called (loads), whether a  *)
(* load completed (loaded), the number of uses, and for the last use the   *)
(* exception it raised and the value it returned (a set: empty when it     *)
(* raised).                                                                *)
(***************************************************************************)
MaxUses == 5          \* uses of one EmbeddingService

Model == "SentenceTransformer"
Dimension == "dimension"
RuntimeError == "RuntimeError"
EncodeError == "Exception"

\* __init__
EmbedderIdle ==
    [_model |-> None, _embedding_dim |-> None, loads |-> 0, loaded |-> FALSE,
     uses |-> 0, use |-> None, raised |-> None, returned |-> {}]

Uses == {"encode", "model", "embedding_dimension"}

\* what the library does when asked: the constructor and
\* get_sentence_embedding_dimension succeed, or one of them raises
LoadOutcomes == {"loaded", "model_error", "dimension_error"}
EncodeOutcomes == {"embeddings", "error"}

\* _load_model with the early return left out
_load_modelAlways(e, load) ==
    IF load = "loaded"
    THEN [e EXCEPT !._model = Model, !._embedding_dim = Dimension,
                   !.loads = @ + 1, !.loaded = TRUE, !.raised = None]
    ELSE IF load = "dimension_error"
    THEN [e EXCEPT !._model = Model, !.loads = @ + 1, !.raised = RuntimeError]
    ELSE [e EXCEPT !.loads = @ + 1, !.raised = RuntimeError]

\* _load_model: return when _model is set; else construct the model, then ask
\* its dimension; any exception becomes a RuntimeError
_load_model(e, load) ==
    IF e._model # None
    THEN [e EXCEPT !.raised = None]
    ELSE IF load = "loaded"
    THEN [e EXCEPT !._model = Model, !._embedding_dim = Dimension,
                   !.loads = @ + 1, !.loaded = TRUE, !.raised = None]
    ELSE IF load = "dimension_error"
    THEN [e EXCEPT !._model = Model, !.loads = @ + 1, !.raised = RuntimeError]
    ELSE [e EXCEPT !.loads = @ + 1, !.raised = RuntimeError]

\* one use of the service: the model property, the embedding_dimension
\* property, or encode (self.model.encode(...) inside try/except: raise)
UseEmbedder(use, load, encoding) ==
    /\ embedder.uses < MaxUses
    /\ LET e == _load_model(embedder, load)
       IN  embedder' =
             [e EXCEPT
                !.uses = @ + 1,
                !.use = use,
                !.raised = IF e.raised # None THEN e.raised
                           ELSE IF use = "encode" /\ encoding = "error"
                           THEN EncodeError
                           ELSE None,
                !.returned = IF e.raised # None THEN {}
                             ELSE IF use = "model" THEN {e._model}
                             ELSE IF use = "embedding_dimension"
                             THEN {e._embedding_dim}
                             ELSE IF encoding = "error" THEN {}
                             ELSE {"embeddings"}]
    /\ UNCHANGED <<storeVars, runs, hf, meta, hydrate, query, enrichment_logs,
                   log_calls, seed, embed,
                   lateVars>>

(***************************************************************************)
(* The seed job: one run of fetch_kaggle_seed(batch_size), which iterates  *)
(* KaggleClient.fetch_initial_seed (download_if_needed, get_total_count,   *)
(* then every batch of parse_csv_batches).  The generator runs until it    *)
(* yields and then waits for the job to take the batch.  seed holds the    *)
(* position of the job, the number of batches it took and total_fetched,   *)
(* its arguments, whether Datasets.csv was in the cache directory when the *)
(* job started (csv_cached) and the number of _download_dataset calls.     *)
(***************************************************************************)
SeedIdle ==
    [pc |-> "idle", batch_size |-> 0, force_redownload |-> FALSE,
     csv_cached |-> FALSE, downloads |-> 0, received |-> 0, total_fetched |-> 0]

\* the call fetch_kaggle_seed(batch_size, force_redownload), with or without a
\* cached file
SeedCall(batch_size, force_redownload, csv_cached) ==
    [SeedIdle EXCEPT !.pc = "download", !.batch_size = batch_size,
                     !.force_redownload = force_redownload,
                     !.csv_cached = csv_cached]

\* download_if_needed that looks at the cache only
download_if_neededIgnoringForce(exists, force) ==
    IF exists THEN 0 ELSE 1

\* download_if_needed(force): the number of _download_dataset calls it makes;
\* if csv_path.exists() and not force: return csv_path
download_if_needed(exists, force) ==
    IF exists /\ ~force THEN 0 ELSE 1

\* KaggleMetaDatasetDTO.external_id
external_id(dto) == ToString(dto.Id)

\* await self.meta_parser.download_if_needed(force=force_redownload): without
\* a download the cached file is there; with one the file is there afterwards,
\* or is not, or the download raises; then
\* parse_csv_batches(batch_size=batch_size, min_last_activity=None) starts
Download(outcome, csv) ==
    /\ seed.pc = "download"
    /\ LET n == download_if_needed(seed.csv_cached, seed.force_redownload)
           s == [seed EXCEPT !.downloads = @ + n]
       IN  \/ /\ outcome = "raised"
              /\ n > 0
              /\ csv = <<>>
              /\ seed' = [s EXCEPT !.pc = "raised"]
              /\ UNCHANGED meta
           \/ /\ outcome = "present"
              /\ seed' = [s EXCEPT !.pc = "iterate"]
              /\ meta' = MetaCall(TRUE, csv, seed.batch_size, NoTime)
           \/ /\ outcome = "absent"
              /\ n > 0
              /\ csv = <<>>
              /\ seed' = [s EXCEPT !.pc = "iterate"]
              /\ meta' = MetaCall(FALSE, csv, seed.batch_size, NoTime)
    /\ UNCHANGED <<storeVars, runs, hf, hydrate, query, enrichment_logs,
                   log_calls, embedder, embed,
                   lateVars>>

\* the generator runs while the job waits for the next batch
Generate ==
    /\ seed.pc = "iterate"
    /\ seed.received = Len(meta.yielded)
    /\ \/ LoadCsv
       \/ FilterByDate
       \/ SortByActivity
       \/ YieldBatch

\* the body of async for: total_fetched += len(batch); nothing is saved
ReceiveBatch ==
    /\ seed.pc = "iterate"
    /\ seed.received < Len(meta.yielded)
    /\ seed' = [seed EXCEPT
                  !.received = @ + 1,
                  !.total_fetched = @ + Len(meta.yielded[seed.received + 1])]
    /\ UNCHANGED <<storeVars, runs, hf, meta, hydrate, query, enrichment_logs,
                   log_calls, embedder, embed,
                   lateVars>>

\* the generator is exhausted: return {"total_fetched": total, ...}
SeedReturn ==
    /\ seed.pc = "iterate"
    /\ meta.pc = "done"
    /\ seed.received = Len(meta.yielded)
    /\ seed' = [seed EXCEPT !.pc = "done"]
    /\ UNCHANGED <<storeVars, runs, hf, meta, hydrate, query, enrichment_logs,
                   log_calls, embedder, embed,
                   lateVars>>

(***************************************************************************)
(* The embed job: generate_embeddings(dataset_ids).                        *)
(***************************************************************************)
EmbedIdle == [pc |-> "idle", dataset_ids |-> <<>>, processed |-> 0]

\* the whole task: log, return {"processed": len(dataset_ids)}
GenerateEmbeddings(dataset_ids) ==
    /\ embed.pc = "idle"
    /\ embed' = [pc |-> "done", dataset_ids |-> dataset_ids,
                 processed |-> Len(dataset_ids)]
    /\ UNCHANGED <<storeVars, runs, hf, meta, hydrate, query, enrichment_logs,
                   log_calls, embedder, seed,
                   lateVars>>

\* get_stats_by_source was not called
StatsIdle ==
    [pc |-> "idle", source_name |-> None, total |-> 0, minimal |-> 0,
     pending |-> 0, enriching |-> 0, enriched |-> 0, failed |-> 0]

\* no run has started a logical attempt
WorkersIdle == <<>>

\* KaggleAPIClient.fetch_latest_datasets was not called
LatestIdle ==
    [pc |-> "idle", limit |-> 0, fetched_count |-> 0, page |-> 1,
     datasets_page |-> 0, yielded |-> <<>>, page_failed |-> FALSE,
     sleeps |-> 0, calls |-> 0]

\* the state of the new services and jobs before anything ran
JobsIdle ==
    /\ enrichment_logs = <<>>
    /\ log_calls = NoLogCalls
    /\ embedder = EmbedderIdle
    /\ seed = SeedIdle
    /\ embed = EmbedIdle
    /\ stats = StatsIdle
    /\ workers = WorkersIdle
    /\ latest = LatestIdle

(***************************************************************************)
(* get_stats_by_source: six COUNT queries awaited one after the other.     *)
(* Each is its own statement, so a statement of another session can take   *)
(* effect between two of them.                                             *)
(***************************************************************************)
\* SELECT count(id) WHERE source_name = :source_name
count_by_source(tbl, source_name) ==
    Cardinality({i \in DOMAIN tbl : tbl[i].source_name = source_name})

\* SELECT count(id) WHERE source_name = :source_name AND enrichment_status = :status
count_by_status(tbl, source_name, status) ==
    Cardinality({i \in DOMAIN tbl :
                    /\ tbl[i].source_name = source_name
                    /\ tbl[i].enrichment_status = status})

\* the call get_stats_by_source(source_name)
StatsCall(source_name) ==
    /\ stats.pc = "idle"
    /\ stats' = [StatsIdle EXCEPT !.pc = "total", !.source_name = source_name]
    /\ UNCHANGED <<storeVars, runs, hf, meta, hydrate, query, enrichment_logs,
                   log_calls, embedder, seed, embed, workers, latest>>

\* the next of the six queries; after the last one the dict is returned
StatsQuery ==
    /\ stats.pc \notin {"idle", "done"}
    /\ stats' =
         IF stats.pc = "total"
         THEN [stats EXCEPT !.pc = MINIMAL,
                            !.total = count_by_source(datasets, stats.source_name)]
         ELSE IF stats.pc = MINIMAL
         THEN [stats EXCEPT !.pc = PENDING,
                            !.minimal = count_by_status(datasets, stats.source_name, MINIMAL)]
         ELSE IF stats.pc = PENDING
         THEN [stats EXCEPT !.pc = ENRICHING,
                            !.pending = count_by_status(datasets, stats.source_name, PENDING)]
         ELSE IF stats.pc = ENRICHING
         THEN [stats EXCEPT !.pc = ENRICHED,
                            !.enriching = count_by_status(datasets, stats.source_name, ENRICHING)]
         ELSE IF stats.pc = ENRICHED
         THEN [stats EXCEPT !.pc = FAILED,
                            !.enriched = count_by_status(datasets, stats.source_name, ENRICHED)]
         ELSE [stats EXCEPT !.pc = "done",
                            !.failed = count_by_status(datasets, stats.source_name, FAILED)]
    /\ UNCHANGED <<storeVars, runs, hf, meta, hydrate, query, enrichment_logs,
                   log_calls, embedder, seed, embed, workers, latest>>

(***************************************************************************)
(* The Kaggle incremental fetcher: one run of                               *)
(* KaggleAPIClient.fetch_latest_datasets(limit, sort_by).  A listing page   *)
(* is held by its length and a batch by the number of DTOs in it; latest    *)
(* holds the loop variables, the sizes of the batches yielded, whether a    *)
(* dataset_list call raised (page_failed), and the numbers of               *)
(* fetch_single_dataset calls and of throttle pauses of                     *)
(* _enrich_datasets_batch.                                                  *)
(***************************************************************************)
MaxPages == 2         \* listing pages one run may request

\* APIConsts.DEFAULT_PAGE_SIZE
DEFAULT_PAGE_SIZE == 20

\* limit arguments: below, at and above one page
LatestLimits == {1, DEFAULT_PAGE_SIZE, DEFAULT_PAGE_SIZE + 1}

\* what self.api.dataset_list(sort_by, page) does: it raises, or returns
\* nothing, an undersized page or a full page
ListOutcomes == {"error", "none", "short", "full"}

PageLength(outcome) ==
    IF outcome = "full" THEN DEFAULT_PAGE_SIZE
    ELSE IF outcome = "short" THEN 1
    ELSE 0

\* the call: fetched_count = 0, page = 1
LatestCall(limit) == [LatestIdle EXCEPT !.pc = "loop", !.limit = limit]

\* while fetched_count < limit
LatestLoopTest ==
    /\ latest.pc = "loop"
    /\ latest' = IF latest.fetched_count < latest.limit
                 THEN [latest EXCEPT !.pc = "list"]
                 ELSE [latest EXCEPT !.pc = "done"]
    /\ UNCHANGED <<storeVars, runs, hf, meta, hydrate, query, enrichment_logs,
                   log_calls, embedder, seed, embed, stats, workers>>

\* datasets_page = await self._fetch_dataset_list_page(page, sort_by), which
\* returns [] for an exception; if not datasets_page: break
ListPage(outcome) ==
    /\ latest.pc = "list"
    /\ latest.page <= MaxPages
    /\ LET l == [latest EXCEPT !.datasets_page = PageLength(outcome),
                               !.page_failed = @ \/ outcome = "error"]
       IN  latest' = IF l.datasets_page = 0
                     THEN [l EXCEPT !.pc = "done"]
                     ELSE [l EXCEPT !.pc = "enrich"]
    /\ UNCHANGED <<storeVars, runs, hf, meta, hydrate, query, enrichment_logs,
                   log_calls, embedder, seed, embed, stats, workers>>

\* batch = await self._enrich_datasets_batch(datasets_page, limit -
\* fetched_count): calls datasets of the page were fetched, each followed by
\* a pause, and dtos of them gave a DTO; the loop over the page ends early
\* only when the batch holds max_count DTOs.  Then: if batch: fetched_count
\* += len(batch); yield batch.  page += 1.  A short page ends the run.
EnrichPage(calls, dtos) ==
    /\ latest.pc = "enrich"
    /\ LET max_count == latest.limit - latest.fetched_count
       IN  /\ dtos \in 0..Min(latest.datasets_page, max_count)
           /\ calls \in dtos..latest.datasets_page
           /\ calls >= 1
           /\ dtos < max_count => calls = latest.datasets_page
    /\ LET l == [latest EXCEPT
                   !.calls = @ + calls,
                   !.sleeps = @ + calls,
                   !.fetched_count = @ + dtos,
                   !.yielded = IF dtos > 0 THEN Append(@, dtos) ELSE @,
                   !.page = @ + 1]
       IN  latest' = IF l.datasets_page < DEFAULT_PAGE_SIZE
                     THEN [l EXCEPT !.pc = "done"]
                     ELSE [l EXCEPT !.pc = "loop"]
    /\ UNCHANGED <<storeVars, runs, hf, meta, hydrate, query, enrichment_logs,
                   log_calls, embedder, seed, embed, stats, workers>>

(***************************************************************************)
(* Logical attempts.  An orchestrator run selects work with                *)
(* get_pending_for_enrichment, calls mark_enriching on a dataset it was    *)
(* given, works on it, and ends the attempt with mark_enriched or          *)
(* mark_failed.  Each call is one statement in the run's own session; the  *)
(* SELECT takes no row lock and the UPDATEs carry no condition on the      *)
(* stored status, so the statements of two runs interleave freely.         *)
(***************************************************************************)
NumWorkers == 2       \* concurrent orchestrator runs selecting work

Workers == 1..NumWorkers

\* a run that has not selected anything yet
WorkerReady == [pc |-> "ready", picked |-> 0]

\* result.scalars().all() of get_pending_for_enrichment("kaggle", limit):
\* the run takes one of the datasets it was returned
SelectWork(r, limit) ==
    /\ workers[r].pc = "ready"
    /\ \E res \in get_pending_for_enrichment(datasets, "kaggle", limit,
                                            DEFAULT_MAX_ATTEMPTS) :
         \E i \in DOMAIN res :
            workers' = [workers EXCEPT ![r] = [pc |-> "selected",
                                               picked |-> res[i].id]]
    /\ UNCHANGED <<storeVars, runs, hf, meta, hydrate, query, enrichment_logs,
                   log_calls, embedder, seed, embed, stats, latest>>

\* mark_enriching(dataset.id): UPDATE ... WHERE id = dataset_id
StartAttempt(r) ==
    /\ workers[r].pc = "selected"
    /\ mark_enriching(workers[r].picked)
    /\ workers' = [workers EXCEPT ![r].pc = "enriching"]
    /\ UNCHANGED <<runs, hf, meta, hydrate, query, enrichment_logs,
                   log_calls, embedder, seed, embed, stats, latest>>

\* the work succeeded: mark_enriched(dataset.id, embedding)
FinishEnriched(r, embedding) ==
    /\ workers[r].pc = "enriching"
    /\ mark_enriched(workers[r].picked, embedding)
    /\ workers' = [workers EXCEPT ![r].pc = "finished"]
    /\ UNCHANGED <<runs, hf, meta, hydrate, query, enrichment_logs,
                   log_calls, embedder, seed, embed, stats, latest>>

\* the work failed: mark_failed(dataset.id, error_message)
FinishFailed(r, error_message) ==
    /\ workers[r].pc = "enriching"
    /\ mark_failed(workers[r].picked, error_message)
    /\ workers' = [workers EXCEPT ![r].pc = "finished"]
    /\ UNCHANGED <<runs, hf, meta, hydrate, query, enrichment_logs,
                   log_calls, embedder, seed, embed, stats, latest>>

StoreInit ==
    /\ datasets = <<>>
    /\ now = 0
    /\ written = [k \in NaturalKeys |-> {}]
    /\ created_with = <<>>
    /\ enriching_calls = <<>>
    /\ failed_marks = <<>>

InitHF ==
    /\ StoreInit
    /\ runs = <<>>
    /\ hf \in {HFCall(c, limit, batch_size, t) :
                 c \in Catalogs, limit \in 1..MaxFetchLimit,
                 batch_size \in 1..MaxBatchSize,
                 t \in {NoTime, MaxStamp}}
    /\ meta = MetaIdle
    /\ hydrate = HydrateIdle
    /\ query = QueryIdle
    /\ JobsIdle

NextHF ==
    \/ LoopTest
    \/ \E response \in Responses : FetchPage(response)
    \/ HandlePage

SpecHF == InitHF /\ [][NextHF]_vars

Init ==
    /\ StoreInit
    /\ runs = <<>>
    /\ hf = HFIdle
    /\ meta = MetaIdle
    /\ hydrate = HydrateIdle
    /\ query = QueryIdle
    /\ JobsIdle

Upsert == \E d \in Incoming : upsert(d) /\ UNCHANGED <<runs, hf, meta, hydrate, query, jobVars>>
BulkUpsert == \E ds \in Batches : bulk_upsert(ds) /\ UNCHANGED <<runs, hf, meta, hydrate, query, jobVars>>
MarkEnriching == \E id \in Ids : mark_enriching(id) /\ UNCHANGED <<runs, hf, meta, hydrate, query, jobVars>>
MarkEnriched ==
    \E id \in Ids, e \in Embeddings \cup {None} :
        mark_enriched(id, e) /\ UNCHANGED <<runs, hf, meta, hydrate, query, jobVars>>
MarkFailed ==
    \E id \in Ids, m \in ErrorMessages :
        mark_failed(id, m) /\ UNCHANGED <<runs, hf, meta, hydrate, query, jobVars>>

(***************************************************************************)
(* Two orchestrator runs that call mark_enriching on the same dataset      *)
(* while a refresh keeps upserting.  A run sends its UPDATE (issued) and   *)
(* the database applies it when it gets to it (done).                      *)
(***************************************************************************)
NumRuns == 2          \* concurrent orchestrator runs

Runs == 1..NumRuns

\* the id both runs picked up
PickedId == 1

\* await self.session.execute(update(Dataset)...): the statement is sent
IssueMarkEnriching(r) ==
    /\ runs[r] = "ready"
    /\ runs' = [runs EXCEPT ![r] = "issued"]
    /\ UNCHANGED <<storeVars, hf, meta, hydrate, query, jobVars>>

\* the database applies the statement; flush returns
ApplyMarkEnriching(r) ==
    /\ runs[r] = "issued"
    /\ mark_enriching(PickedId)
    /\ runs' = [runs EXCEPT ![r] = "done"]
    /\ UNCHANGED <<hf, meta, hydrate, query, jobVars>>

\* the table after the seed upserted its first dataset
InitRuns ==
    /\ \E d \in Incoming :
          /\ datasets = UpsertRow(<<>>, d, 0)
          /\ written = [k \in NaturalKeys |->
                          IF k = Key(d) THEN {Descriptive(d)} ELSE {}]
          /\ created_with = <<d.enrichment_attempts>>
    /\ now = 0
    /\ enriching_calls = <<0>>
    /\ failed_marks = <<FALSE>>
    /\ runs = [r \in Runs |-> "ready"]
    /\ hf = HFIdle
    /\ meta = MetaIdle
    /\ hydrate = HydrateIdle
    /\ query = QueryIdle
    /\ JobsIdle

NextRuns ==
    \/ \E r \in Runs : IssueMarkEnriching(r)
    \/ \E r \in Runs : ApplyMarkEnriching(r)
    \/ Upsert

SpecRuns == InitRuns /\ [][NextRuns]_vars

Next ==
    \/ Upsert
    \/ BulkUpsert
    \/ MarkEnriching
    \/ MarkEnriched
    \/ MarkFailed

Spec == Init /\ [][Next]_vars

InitMeta ==
    /\ StoreInit
    /\ runs = <<>>
    /\ hf = HFIdle
    /\ hydrate = HydrateIdle
    /\ query = QueryIdle
    /\ JobsIdle
    /\ meta \in {MetaCall(TRUE, csv, batch_size, min_last_activity) :
                   csv \in Frames, batch_size \in 1..MaxBatchSize,
                   min_last_activity \in MinDates}
               \cup {MetaCall(FALSE, <<>>, batch_size, NoTime) :
                       batch_size \in 1..MaxBatchSize}

NextMeta ==
    \/ LoadCsv
    \/ FilterByDate
    \/ SortByActivity
    \/ YieldBatch

SpecMeta == InitMeta /\ [][NextMeta]_vars

InitHydrate ==
    /\ StoreInit
    /\ runs = <<>>
    /\ hf = HFIdle
    /\ meta = MetaIdle
    /\ query = QueryIdle
    /\ JobsIdle
    /\ hydrate \in {HydrateCall(dataset_refs, batch_size) :
                      dataset_refs \in RefLists, batch_size \in HydrateBatchSizes}

NextHydrate ==
    \/ CallEnrich
    \/ \E outcome \in ViewOutcomes : DatasetView(outcome)
    \/ \E outcome \in FilesOutcomes : ListFiles(outcome)
    \/ Count
    \/ EnrichRaises

SpecHydrate == InitHydrate /\ [][NextHydrate]_vars

(***************************************************************************)
(* The pending-work query over the tables the store can hold: rows of two  *)
(* sources, created at different times (ids are uuid4, so the id says      *)
(* nothing about the age of a row), in every status, active or not, with   *)
(* no attempt or with DEFAULT_MAX_ATTEMPTS attempts on record.             *)
(***************************************************************************)
MaxQueryRows == 2     \* rows of a queried table
MaxCreated == 1       \* latest created_at of a queried row

QueryKeys == NaturalKeys \cup {<<"huggingface", "a">>}

\* the row with id id that was inserted for key k at time t and has since come
\* to status s, is_active a and n attempts
StoredRow(id, k, t, s, a, n) ==
    [InsertedRow(Dataset(k, 1, CHOOSE p \in Profiles :
                                  p.enrichment_status = MINIMAL), id, t)
        EXCEPT !.enrichment_status = s, !.is_active = a,
               !.enrichment_attempts = n]

StoredRows(id) ==
    {StoredRow(id, k, t, s, a, n) :
        k \in QueryKeys, t \in 0..MaxCreated, s \in EnrichmentStatus,
        a \in BOOLEAN, n \in {0, DEFAULT_MAX_ATTEMPTS}}

Tables ==
    {tbl \in UNION {[1..n -> UNION {StoredRows(id) : id \in 1..n}] :
                      n \in 0..MaxQueryRows} :
        /\ \A i \in DOMAIN tbl : tbl[i].id = i
        /\ \A i, j \in DOMAIN tbl : i # j => Key(tbl[i]) # Key(tbl[j])}

InitQuery ==
    /\ datasets \in Tables
    /\ now = MaxCreated
    /\ written = [k \in NaturalKeys |-> {}]
    /\ created_with = [i \in DOMAIN datasets |-> 0]
    /\ enriching_calls = [i \in DOMAIN datasets |-> datasets[i].enrichment_attempts]
    /\ failed_marks = [i \in DOMAIN datasets |-> datasets[i].enrichment_status = FAILED]
    /\ runs = <<>>
    /\ hf = HFIdle
    /\ meta = MetaIdle
    /\ hydrate = HydrateIdle
    /\ query = QueryIdle
    /\ JobsIdle

NextQuery ==
    \E source_name \in Sources, limit \in 1..MaxLimit,
       max_attempts \in {DEFAULT_MAX_ATTEMPTS, DEFAULT_MAX_ATTEMPTS + 1} :
        AskPending(source_name, limit, max_attempts)

SpecQuery == InitQuery /\ [][NextQuery]_vars

(***************************************************************************)
(* The status transitions on one stored row while the database clock       *)
(* advances.                                                               *)
(***************************************************************************)
MaxClock == 2         \* latest time of the database clock

\* time passes between two statements
Tick ==
    /\ now < MaxClock
    /\ now' = now + 1
    /\ UNCHANGED <<datasets, written, created_with, enriching_calls,
                   failed_marks, runs, hf, meta, hydrate, query, jobVars>>

\* the table after a first upsert
InitClock ==
    /\ \E d \in Incoming :
          /\ datasets = UpsertRow(<<>>, d, 0)
          /\ written = [k \in NaturalKeys |->
                          IF k = Key(d) THEN {Descriptive(d)} ELSE {}]
          /\ created_with = <<d.enrichment_attempts>>
    /\ now = 0
    /\ enriching_calls = <<0>>
    /\ failed_marks = <<FALSE>>
    /\ runs = <<>>
    /\ hf = HFIdle
    /\ meta = MetaIdle
    /\ hydrate = HydrateIdle
    /\ query = QueryIdle
    /\ JobsIdle

NextClock ==
    \/ Tick
    \/ MarkEnriching
    \/ MarkEnriched
    \/ MarkFailed

SpecClock == InitClock /\ [][NextClock]_vars

(***************************************************************************)
(* The repositories: the operations DatasetRepository and                  *)
(* EnrichmentLogRepository expose, inherited ones included.                *)
(***************************************************************************)
\* the entities handed to create: a first version with the column defaults
NewDatasets ==
    {Dataset(k, 1, CHOOSE p \in Profiles : p.enrichment_status = MINIMAL) :
        k \in NaturalKeys}

NextRepo ==
    \/ \E d \in NewDatasets : CreateDataset(d)
    \/ MarkFailed
    \/ DeleteDataset
    \/ \E dataset_id \in 1..MaxRows, stage \in Stages, result \in Results,
          attempt_number \in AttemptNumbers :
            LogEnrichment(dataset_id, stage, result, attempt_number)
    \/ \E i \in 1..MaxLogs, stage \in Stages, result \in Results :
          UpdateLog(i, stage, result)
    \/ \E i \in 1..MaxLogs : DeleteLog(i)

SpecRepo == Init /\ [][NextRepo]_vars

(***************************************************************************)
(* One EmbeddingService from construction on.                              *)
(***************************************************************************)
NextEmbedder ==
    \E use \in Uses, load \in LoadOutcomes, encoding \in EncodeOutcomes :
        UseEmbedder(use, load, encoding)

SpecEmbedder == Init /\ [][NextEmbedder]_vars

(***************************************************************************)
(* One run of the seed job on an empty store.                              *)
(***************************************************************************)
InitSeed ==
    /\ StoreInit
    /\ runs = <<>>
    /\ hf = HFIdle
    /\ meta = MetaIdle
    /\ hydrate = HydrateIdle
    /\ query = QueryIdle
    /\ enrichment_logs = <<>>
    /\ log_calls = NoLogCalls
    /\ embedder = EmbedderIdle
    /\ seed \in {SeedCall(batch_size, force_redownload, csv_cached) :
                   batch_size \in 1..MaxBatchSize,
                   force_redownload \in BOOLEAN, csv_cached \in BOOLEAN}
    /\ embed = EmbedIdle
    /\ stats = StatsIdle
    /\ workers = WorkersIdle
    /\ latest = LatestIdle

NextSeed ==
    \/ \E outcome \in {"raised", "present", "absent"}, csv \in Frames :
          Download(outcome, csv)
    \/ Generate
    \/ ReceiveBatch
    \/ SeedReturn

SpecSeed == InitSeed /\ [][NextSeed]_vars

(***************************************************************************)
(* One run of the embed job on a stored table, for ids the embedding query *)
(* returned.                                                               *)
(***************************************************************************)
\* the ids of the rows a query returned
IdsOf(rows) == [k \in DOMAIN rows |-> rows[k].id]

NextEmbedJob ==
    \E limit \in 1..MaxLimit :
        \E rows \in get_for_embedding_generation(datasets, limit) :
            GenerateEmbeddings(IdsOf(rows))

SpecEmbedJob == InitQuery /\ [][NextEmbedJob]_vars

(***************************************************************************)
(* One call of get_stats_by_source on a table of one row while other       *)
(* sessions apply status transitions.                                      *)
(***************************************************************************)
NextStats ==
    \/ \E source_name \in Sources : StatsCall(source_name)
    \/ StatsQuery
    \/ MarkEnriching
    \/ MarkEnriched
    \/ MarkFailed

SpecStats == InitClock /\ [][NextStats]_vars

(***************************************************************************)
(* One run of the Kaggle incremental fetcher.                              *)
(***************************************************************************)
InitLatest ==
    /\ StoreInit
    /\ runs = <<>>
    /\ hf = HFIdle
    /\ meta = MetaIdle
    /\ hydrate = HydrateIdle
    /\ query = QueryIdle
    /\ enrichment_logs = <<>>
    /\ log_calls = NoLogCalls
    /\ embedder = EmbedderIdle
    /\ seed = SeedIdle
    /\ embed = EmbedIdle
    /\ stats = StatsIdle
    /\ workers = WorkersIdle
    /\ latest \in {LatestCall(limit) : limit \in LatestLimits}

NextLatest ==
    \/ LatestLoopTest
    \/ \E outcome \in ListOutcomes : ListPage(outcome)
    \/ \E calls \in 1..DEFAULT_PAGE_SIZE, dtos \in 0..DEFAULT_PAGE_SIZE :
          EnrichPage(calls, dtos)

SpecLatest == InitLatest /\ [][NextLatest]_vars

(***************************************************************************)
(* Two orchestrator runs over a table that holds work: one or two active   *)
(* rows that no run has attempted yet.                                     *)
(***************************************************************************)
WorkTables ==
    {tbl \in Tables :
        /\ Len(tbl) >= 1
        /\ \A i \in DOMAIN tbl :
              /\ tbl[i].enrichment_status \in {MINIMAL, PENDING}
              /\ tbl[i].is_active
              /\ tbl[i].enrichment_attempts = 0}

InitWorkers ==
    /\ datasets \in WorkTables
    /\ now = MaxCreated
    /\ written = [k \in NaturalKeys |-> {}]
    /\ created_with = [i \in DOMAIN datasets |-> 0]
    /\ enriching_calls = [i \in DOMAIN datasets |-> 0]
    /\ failed_marks = [i \in DOMAIN datasets |-> FALSE]
    /\ runs = <<>>
    /\ hf = HFIdle
    /\ meta = MetaIdle
    /\ hydrate = HydrateIdle
    /\ query = QueryIdle
    /\ enrichment_logs = <<>>
    /\ log_calls = NoLogCalls
    /\ embedder = EmbedderIdle
    /\ seed = SeedIdle
    /\ embed = EmbedIdle
    /\ stats = StatsIdle
    /\ workers = [r \in Workers |-> WorkerReady]
    /\ latest = LatestIdle

NextWorkers ==
    \/ \E r \in Workers, limit \in 1..MaxLimit : SelectWork(r, limit)
    \/ \E r \in Workers : StartAttempt(r)
    \/ \E r \in Workers, embedding \in Embeddings \cup {None} :
          FinishEnriched(r, embedding)
    \/ \E r \in Workers, m \in ErrorMessages : FinishFailed(r, m)

SpecWorkers == InitWorkers /\ [][NextWorkers]_vars

(***************************************************************************)
(* Everything that works on stored datasets, running to its end: the       *)
(* hydrate job on one reference and two orchestrator runs, over a table    *)
(* of one row in any status, with no attempt or with DEFAULT_MAX_ATTEMPTS  *)
(* attempts on record.  Celery runs a started task to its end and a run    *)
(* issues its next statement, hence the weak fairness of both.             *)
(***************************************************************************)
CeilingTables == {tbl \in Tables : Len(tbl) = 1}

InitCeiling ==
    /\ datasets \in CeilingTables
    /\ now = MaxCreated
    /\ written = [k \in NaturalKeys |-> {}]
    /\ created_with = [i \in DOMAIN datasets |-> 0]
    /\ enriching_calls = [i \in DOMAIN datasets |-> datasets[i].enrichment_attempts]
    /\ failed_marks = [i \in DOMAIN datasets |-> datasets[i].enrichment_status = FAILED]
    /\ runs = <<>>
    /\ hf = HFIdle
    /\ meta = MetaIdle
    /\ hydrate \in {HydrateCall(dataset_refs, 1) :
                      dataset_refs \in {l \in RefLists : Len(l) = 1}}
    /\ query = QueryIdle
    /\ enrichment_logs = <<>>
    /\ log_calls = NoLogCalls
    /\ embedder = EmbedderIdle
    /\ seed = SeedIdle
    /\ embed = EmbedIdle
    /\ stats = StatsIdle
    /\ workers = [r \in Workers |-> WorkerReady]
    /\ latest = LatestIdle

NextCeiling ==
    \/ NextWorkers
    \/ NextHydrate

SpecCeiling ==
    /\ InitCeiling
    /\ [][NextCeiling]_vars
    /\ WF_vars(NextWorkers)
    /\ WF_vars(NextHydrate)

(***************************************************************************)
(* Properties.                                                             *)
(***************************************************************************)
Limits == 1..MaxLimit
MaxAttemptsArgs == 0..(MaxAttempts + 1)

\* row i of tbl is in some result of get_pending_for_enrichment
ReturnedAsPending(tbl, i) ==
    \E source \in Sources, limit \in Limits, m \in MaxAttemptsArgs :
        \E res \in get_pending_for_enrichment(tbl, source, limit, m) :
            \E k \in DOMAIN res : res[k].id = tbl[i].id

\* row i of tbl is in some result of get_for_embedding_generation
ReturnedForEmbedding(tbl, i) ==
    \E limit \in Limits :
        \E res \in get_for_embedding_generation(tbl, limit) :
            \E k \in DOMAIN res : res[k].id = tbl[i].id

\* rows of tbl with natural key k
RowsOf(tbl, k) == {i \in DOMAIN tbl : Key(tbl[i]) = k}

\* the keys whose descriptive values the step overwrote with different ones
Rewritten == {k \in NaturalKeys : written[k] # {} /\ written'[k] # written[k]}

\* the keys the step wrote for the first time
FirstWritten == {k \in NaturalKeys : written[k] = {} /\ written'[k] # {}}

\* C1: a second upsert or bulk_upsert of a stored natural key, with different
\* field values, leaves exactly one row for the key, with the descriptive
\* fields of the second write, and the number of rows is what it was after the
\* first write.
C1_SecondWriteReplaces ==
    [][ /\ \A k \in Rewritten :
              /\ Cardinality(RowsOf(datasets', k)) = 1
              /\ \A i \in RowsOf(datasets', k) :
                    written'[k] = {Descriptive(datasets'[i])}
        /\ (Rewritten # {} /\ FirstWritten = {})
              => Len(datasets') = Len(datasets)
      ]_vars

\* C1 witness: a row that was created inactive with one attempt on record and
\* that a second write, carrying version 2 of the source data, made active.
C1_Witness ==
    \E i \in DOMAIN datasets :
        /\ created_with[i] = 1
        /\ datasets[i].is_active
        /\ datasets[i].title = 2

\* C2: in every state reached by interleaved upsert and bulk_upsert statements
\* no two rows share (source_name, external_id), and each row carries the
\* descriptive values of the statement applied last to its key.
C2_UniqueKeyLastWriteWins ==
    /\ \A i, j \in DOMAIN datasets :
          i # j => Key(datasets[i]) # Key(datasets[j])
    /\ \A i \in DOMAIN datasets :
          written[Key(datasets[i])] = {Descriptive(datasets[i])}

\* C2 witness: two stored keys, one of them created as pending and active and
\* then deactivated by a bulk_upsert of the same key.
C2_Witness ==
    /\ Len(datasets) = 2
    /\ \E i \in DOMAIN datasets :
          /\ datasets[i].enrichment_status = PENDING
          /\ ~datasets[i].is_active
          /\ created_with[i] = 0

\* C3: a row created with enrichment_attempts = 0 has enrichment_attempts equal
\* to the number of mark_enriching calls applied to its id.
C3_AttemptsCountCalls ==
    \A i \in DOMAIN datasets :
        created_with[i] = 0
            => datasets[i].enrichment_attempts = enriching_calls[i]

\* C3 witness: mark_enriching was applied twice to a row created with no attempt.
C3_Witness ==
    \E i \in DOMAIN datasets :
        /\ created_with[i] = 0
        /\ enriching_calls[i] = 2
        /\ datasets[i].enrichment_attempts = 2

\* C4: with two runs calling mark_enriching on the same id concurrently, the
\* counter has grown by one for every run whose call completed (by two once
\* both completed), in every interleaving with each other and with upserts.
C4_NoLostIncrement ==
    \A i \in WhereId(datasets, PickedId) :
        datasets[i].enrichment_attempts =
            created_with[i] + Cardinality({r \in DOMAIN runs : runs[r] = "done"})

\* C4 witness: both runs completed and the counter is two above its start.
C4_Witness ==
    /\ DOMAIN runs = Runs
    /\ \A r \in Runs : runs[r] = "done"
    /\ \E i \in WhereId(datasets, PickedId) :
          datasets[i].enrichment_attempts = created_with[i] + 2

\* C5: no result of get_pending_for_enrichment(source, limit, max_attempts)
\* holds a row whose enrichment_attempts is max_attempts or more.
C5_PendingBelowCeiling ==
    \A source \in Sources, limit \in Limits, m \in MaxAttemptsArgs :
        \A res \in get_pending_for_enrichment(datasets, source, limit, m) :
            \A k \in DOMAIN res : res[k].enrichment_attempts < m

\* C5 witness: an active minimal row that has reached the default ceiling, next
\* to which the query still returns rows for a higher ceiling.
C5_Witness ==
    \E i \in DOMAIN datasets :
        /\ datasets[i].is_active
        /\ datasets[i].enrichment_status = MINIMAL
        /\ datasets[i].enrichment_attempts = DEFAULT_MAX_ATTEMPTS
        /\ ReturnedAsPending(datasets, i)

\* C6: right after mark_failed(id, message) the row has status failed, is
\* inactive, records the message, and is in no result of
\* get_pending_for_enrichment or get_for_embedding_generation.
C6_FailedIsDeactivated ==
    [][ \A id \in Ids, m \in ErrorMessages :
           mark_failed(id, m)
              => \A i \in WhereId(datasets, id) :
                    /\ datasets'[i].enrichment_status = FAILED
                    /\ datasets'[i].is_active = FALSE
                    /\ datasets'[i].last_enrichment_error = m
                    /\ ~ReturnedAsPending(datasets', i)
                    /\ ~ReturnedForEmbedding(datasets', i)
      ]_vars

\* C6 witness: a row to which mark_failed was applied and that is as it left it.
C6_Witness ==
    \E i \in DOMAIN datasets :
        /\ failed_marks[i]
        /\ datasets[i].enrichment_status = FAILED
        /\ ~datasets[i].is_active
        /\ datasets[i].last_enrichment_error \in ErrorMessages

\* C7: a row to which mark_failed was applied is never again in a result of
\* get_pending_for_enrichment or get_for_embedding_generation, whatever
\* statements follow.
C7_FailedStaysExcluded ==
    \A i \in DOMAIN datasets :
        failed_marks[i]
            => /\ ~ReturnedAsPending(datasets, i)
               /\ ~ReturnedForEmbedding(datasets, i)

\* C8: no statement changes the enrichment_status of a row that is failed or
\* skipped.
C8_TerminalStatusAbsorbing ==
    [][ \A i \in DOMAIN datasets :
           datasets[i].enrichment_status \in {FAILED, SKIPPED}
              => datasets'[i].enrichment_status = datasets[i].enrichment_status
      ]_vars

RECURSIVE Flatten(_)
Flatten(batches) ==
    IF batches = <<>> THEN <<>> ELSE Head(batches) \o Flatten(Tail(batches))

RECURSIVE Fresh(_, _)
\* the valid records of c whose update time is t or later, in order
Fresh(c, t) ==
    IF c = <<>> THEN <<>>
    ELSE IF Head(c).valid /\ get_update_time(Head(c)) >= t
         THEN <<Head(c)>> \o Fresh(Tail(c), t)
         ELSE Fresh(Tail(c), t)

\* a valid record older than t lies before position n + 1 of c
OldBefore(c, n, t) ==
    \E i \in DOMAIN c : i <= n /\ c[i].valid /\ get_update_time(c[i]) < t

\* C9: with cutoff T and a listing sorted by update time descending, a fetch
\* that the endpoint always answered and that ended below its limit has yielded
\* every record with update time >= T and none older, and no page is requested
\* past the page holding the first record older than T.
C9_CutoffCorrect ==
    (hf.min_last_modified # NoTime) =>
        /\ (hf.pc = "done" /\ ~hf.faults /\ hf.fetched_count < hf.limit)
              => Flatten(hf.yielded) = Fresh(hf.catalog, hf.min_last_modified)
        /\ \A k \in DOMAIN Flatten(hf.yielded) :
              get_update_time(Flatten(hf.yielded)[k]) >= hf.min_last_modified
        /\ hf.pc = "fetch"
              => ~OldBefore(hf.catalog, hf.offset, hf.min_last_modified)

\* C10: once a GET was answered 404 no further GET is issued, neither for that
\* page nor for a later one, and the fetch does not raise.
C10_NotFoundEndsFetch ==
    hf.not_found => (hf.gets_after_not_found = 0 /\ hf.pc # "raised")

\* the 4xx answers other than 404
FatalResponses == HttpStatusErrors \ {NOT_FOUND, "500"}

\* the failures the retry is meant for: connect error, timeout, 5xx
RetryableResponses == TransportErrors \cup {"500"}

\* C11: a GET answered with a 4xx status other than 404 ends the fetch with
\* that error at once: the answer is never followed by another attempt.
C11_FatalNotRetried ==
    [][ \A response \in FatalResponses :
           FetchPage(response)
              => (hf'.pc = "raised" /\ hf'.raised = response)
      ]_vars

\* C12: a page is attempted at most STOP_AFTER_ATTEMPT times; a retryable
\* failure before the last attempt is followed by another attempt of the same
\* page; an attempt that is answered returns the page and nothing is raised; a
\* retryable failure of the last attempt is raised to the consumer, the batches
\* yielded so far stay, and nothing is requested after it.
C12_RetryCeiling ==
    [][ /\ hf.attempt <= STOP_AFTER_ATTEMPT
        /\ \A response \in RetryableResponses :
              FetchPage(response)
                 => IF hf.attempt < STOP_AFTER_ATTEMPT
                    THEN /\ hf'.pc = "fetch"
                         /\ hf'.attempt = hf.attempt + 1
                         /\ hf'.offset = hf.offset
                         /\ hf'.raised = None
                    ELSE /\ hf'.pc = "raised"
                         /\ hf'.raised = response
                         /\ hf'.yielded = hf.yielded
        /\ FetchPage(OK)
              => /\ hf'.pc = "page"
                 /\ hf'.raw_data = PageAt(hf.catalog, hf.offset, hf.batch_size)
                 /\ hf'.raised = None
        /\ hf.pc = "raised" => hf' = hf
      ]_vars

\* C12 witness: a batch was yielded, then a later page failed on each of its
\* STOP_AFTER_ATTEMPT attempts and the last failure, a 5xx, was raised.
C12_Witness ==
    /\ hf.pc = "raised"
    /\ hf.raised = "500"
    /\ hf.attempt = STOP_AFTER_ATTEMPT
    /\ hf.yielded # <<>>
    /\ hf.offset > 0

\* row is one of the rows of df
Kept(row, df) == \E k \in DOMAIN df : df[k] = row

\* C13: with a minimum activity date D the filter keeps every row whose
\* LastActivityDate is missing, keeps every row whose LastActivityDate is D or
\* later, and removes every row whose LastActivityDate is before D; with no
\* date it removes nothing.
C13_FilterByDate ==
    [][ FilterByDate =>
          LET D == meta.min_last_activity
          IN  /\ D = NoTime => meta'.df = meta.df
              /\ D # NoTime =>
                   \A i \in DOMAIN meta.df :
                      LET row == meta.df[i]
                      IN  /\ isna(row.LastActivityDate) => Kept(row, meta'.df)
                          /\ (~isna(row.LastActivityDate)
                                /\ row.LastActivityDate >= D) => Kept(row, meta'.df)
                          /\ (~isna(row.LastActivityDate)
                                /\ row.LastActivityDate < D) => ~Kept(row, meta'.df)
      ]_vars

\* C13 witness: the filter ran with a date over a file holding a row without a
\* date, a row on the date and an older row, and two rows are left.
C13_Witness ==
    /\ meta.pc = "sort"
    /\ meta.min_last_activity = MaxStamp
    /\ \E a, b, c \in DOMAIN meta.csv :
          /\ isna(meta.csv[a].LastActivityDate)
          /\ meta.csv[b].LastActivityDate = MaxStamp
          /\ meta.csv[c].LastActivityDate = 1
    /\ Len(meta.df) = 2

C15_StatusOnlyByTransitions ==
    [][ \A i \in DOMAIN datasets :
           datasets'[i].enrichment_status # datasets[i].enrichment_status
              => \/ \E id \in Ids : mark_enriching(id)
                 \/ \E id \in Ids, e \in Embeddings \cup {None} : mark_enriched(id, e)
                 \/ \E id \in Ids, m \in ErrorMessages : mark_failed(id, m)
      ]_vars

\* the rows of tbl the claim says the query is about
IsPendingWork(row, source_name, max_attempts) ==
    /\ row.source_name = source_name
    /\ row.is_active = TRUE
    /\ row.enrichment_status \in {MINIMAL, PENDING}
    /\ row.enrichment_attempts < max_attempts

\* C16: the list get_pending_for_enrichment(source, limit, max_attempts)
\* returns holds only active rows of the source in status minimal or pending
\* with fewer than max_attempts attempts, each once, in ascending created_at;
\* it holds all of them when they are at most limit, and otherwise limit of
\* them, none created later than a row that was left out.
C16_PendingExactOrderedTruncated ==
    query.op = "pending" =>
        LET res == query.result
            work == {i \in DOMAIN datasets :
                       IsPendingWork(datasets[i], query.source_name,
                                     query.max_attempts)}
            got == {res[k].id : k \in DOMAIN res}
        IN  /\ \A k \in DOMAIN res :
                  /\ res[k].id \in work
                  /\ res[k] = datasets[res[k].id]
            /\ \A k, l \in DOMAIN res : k # l => res[k].id # res[l].id
            /\ Len(res) = Min(query.limit, Cardinality(work))
            /\ \A k, l \in DOMAIN res :
                  k < l => res[k].created_at <= res[l].created_at
            /\ \A i \in work \ got :
                  \A k \in DOMAIN res : res[k].created_at <= datasets[i].created_at

\* C16 witness: two rows are pending work, the one with the higher id is the
\* older, the query asked for one row and got the older one.
C16_Witness ==
    /\ query.op = "pending"
    /\ query.limit = 1
    /\ Len(datasets) = 2
    /\ \A i \in DOMAIN datasets :
          IsPendingWork(datasets[i], query.source_name, query.max_attempts)
    /\ datasets[2].created_at < datasets[1].created_at
    /\ query.result = <<datasets[2]>>

\* C17: every list get_for_embedding_generation(limit) returns has at most
\* limit rows, each active, enriched and without embedding; and right after
\* mark_enriched(id, embedding) with an embedding the row is in no such list.
C17_EmbeddingQueue ==
    [][ /\ \A limit \in Limits :
              \A res \in get_for_embedding_generation(datasets', limit) :
                 /\ Len(res) <= limit
                 /\ \A k \in DOMAIN res :
                       /\ res[k].is_active = TRUE
                       /\ res[k].enrichment_status = ENRICHED
                       /\ res[k].embedding = None
        /\ \A id \in Ids, e \in Embeddings :
              mark_enriched(id, e)
                 => \A i \in WhereId(datasets, id) :
                       ~ReturnedForEmbedding(datasets', i)
      ]_vars

\* C17 witness: a row that was returned for embedding generation until
\* mark_enriched gave it its embedding: active, enriched, stamped, with an
\* embedding, and in no result of the query.
C17_Witness ==
    \E i \in DOMAIN datasets :
        /\ datasets[i].is_active
        /\ datasets[i].enrichment_status = ENRICHED
        /\ datasets[i].last_enriched_at # NoTime
        /\ datasets[i].embedding \in Embeddings
        /\ ~ReturnedForEmbedding(datasets, i)

\* C18: mark_enriched(id, embedding) makes the row enriched and stamps
\* last_enriched_at with the time of the statement; it writes the embedding
\* when one is given and leaves the stored embedding when none is given; it
\* leaves enrichment_attempts, is_active and last_enrichment_error, and every
\* other row, as they were.
C18_MarkEnrichedFrame ==
    [][ \A id \in Ids, e \in Embeddings \cup {None} :
           mark_enriched(id, e)
              => \A i \in DOMAIN datasets :
                    IF i \in WhereId(datasets, id)
                    THEN /\ datasets'[i].enrichment_status = ENRICHED
                         /\ datasets'[i].last_enriched_at = now
                         /\ e # None => datasets'[i].embedding = e
                         /\ e = None => datasets'[i].embedding = datasets[i].embedding
                         /\ datasets'[i].enrichment_attempts
                               = datasets[i].enrichment_attempts
                         /\ datasets'[i].is_active = datasets[i].is_active
                         /\ datasets'[i].last_enrichment_error
                               = datasets[i].last_enrichment_error
                    ELSE datasets'[i] = datasets[i]
      ]_vars

\* C18 witness: a row that was tried once, marked failed, and at the latest
\* time marked enriched: it is enriched, stamped with that time, holds an
\* embedding, and is still inactive with its error and its one attempt.
C18_Witness ==
    \E i \in DOMAIN datasets :
        /\ created_with[i] = 0
        /\ failed_marks[i]
        /\ datasets[i].enrichment_status = ENRICHED
        /\ datasets[i].last_enriched_at = MaxClock
        /\ datasets[i].embedding \in Embeddings
        /\ datasets[i].enrichment_attempts = 1
        /\ ~datasets[i].is_active
        /\ datasets[i].last_enrichment_error \in ErrorMessages

\* C19: when dataset_view returns a well-formed detail and the file listing
\* fails, fetch_single_dataset returns the DTO of that detail with an empty
\* file list; when dataset_view fails it returns None; in both cases it
\* returns, it does not raise; and a DTO it returns is never partial: it is
\* the DTO of a well-formed detail with the files that were listed.
C19_DetailSurvivesFilesFailure ==
    [][ /\ (ListFiles("error") /\ hydrate.view = "detail")
              => /\ hydrate'.pc = "count"
                 /\ hydrate'.result
                       = {KaggleEnrichedDatasetDTO(CurrentRef(hydrate), <<>>)}
        /\ DatasetView("error")
              => /\ hydrate'.pc = "count"
                 /\ hydrate'.result = NoResult
        /\ (hydrate'.pc = "count" /\ hydrate'.result # NoResult)
              => /\ hydrate'.view = "detail"
                 /\ hydrate'.files \in FilesOutcomes
                 /\ hydrate'.result
                       = {KaggleEnrichedDatasetDTO(CurrentRef(hydrate),
                                                   FileDicts(hydrate'.files))}
      ]_vars

\* C19 witness: the detail of the reference in hand arrived, its file listing
\* failed, and fetch_single_dataset returned a DTO without files.
C19_Witness ==
    /\ hydrate.pc = "count"
    /\ hydrate.view = "detail"
    /\ hydrate.files = "error"
    /\ hydrate.result = {KaggleEnrichedDatasetDTO(CurrentRef(hydrate), <<>>)}

\* C20: the job passes the references to enrich_dataset_by_ref one by one in
\* the order of its input, each once, whatever the outcomes; a reference whose
\* enrichment raised or returned None counts as failed; enriched + failed is
\* the number of references dealt with, and the number of references handed
\* in when the job completes.
C20_EveryRefCountedOnce ==
    LET inHand == IF hydrate.pc \in {"view", "files", "count"} THEN 1 ELSE 0
    IN  /\ Len(hydrate.calls) <= Len(hydrate.dataset_refs)
        /\ hydrate.calls = SubSeq(hydrate.dataset_refs, 1, Len(hydrate.calls))
        /\ hydrate.enriched_count + hydrate.failed_count
              = Len(hydrate.calls) - inHand
        /\ hydrate.pc = "done"
              => /\ hydrate.calls = hydrate.dataset_refs
                 /\ hydrate.enriched_count + hydrate.failed_count
                       = Len(hydrate.dataset_refs)

\* C20 witness: a job over MaxRefs references in slices of two has completed;
\* one enrichment gave a DTO, the others failed, the last of them by raising.
C20_Witness ==
    /\ hydrate.pc = "done"
    /\ Len(hydrate.dataset_refs) = MaxRefs
    /\ hydrate.batch_size = 2
    /\ hydrate.view = "raised"
    /\ hydrate.enriched_count = 1
    /\ hydrate.failed_count = MaxRefs - 1

\* C21: the batches yielded by fetch_latest_datasets(limit, batch_size, ...)
\* never hold more than limit datasets in total.
C21_YieldsAtMostLimit ==
    Len(Flatten(hf.yielded)) <= hf.limit

\* C22: one turn of the batch loop over a slice with v valid and u invalid rows
\* yields exactly the v valid rows, in their order, as one batch (no batch when
\* v = 0), logs u failures, and goes on with the following slice.
C22_InvalidRowsSkipped ==
    [][ (YieldBatch /\ meta.i < Len(meta.df)) =>
          LET last == Min(meta.i + meta.batch_size, Len(meta.df))
              V == {k \in (meta.i + 1)..last : meta.df[k].valid}
              U == {k \in (meta.i + 1)..last : ~meta.df[k].valid}
              batch == IF Len(meta'.yielded) > Len(meta.yielded)
                       THEN meta'.yielded[Len(meta'.yielded)] ELSE <<>>
          IN  /\ Len(batch) = Cardinality(V)
              /\ \A k \in V : Kept(meta.df[k], batch)
              /\ \A a, b \in DOMAIN batch : a < b => batch[a].Id # batch[b].Id
              /\ \A k \in DOMAIN batch : batch[k].valid
              /\ Len(meta'.yielded) =
                    Len(meta.yielded) + (IF V = {} THEN 0 ELSE 1)
              /\ \A k \in DOMAIN meta.yielded : meta'.yielded[k] = meta.yielded[k]
              /\ meta'.failures = meta.failures + Cardinality(U)
              /\ meta'.pc = "batches"
              /\ meta'.i = meta.i + meta.batch_size
      ]_vars

\* C22 witness: a file of three rows read in slices of two; the first slice had
\* one malformed row and gave one record and one logged failure, and the
\* following slice was processed and gave its record.
C22_Witness ==
    /\ meta.pc = "done"
    /\ meta.batch_size = 2
    /\ Len(meta.df) = 3
    /\ ~(meta.df[1].valid /\ meta.df[2].valid)
    /\ meta.df[1].valid \/ meta.df[2].valid
    /\ meta.df[3].valid
    /\ meta.failures = 1
    /\ Len(meta.yielded) = 2
    /\ Len(meta.yielded[1]) = 1

\* the rows of the file that pass the date filter and that the DTO accepts
ExpectedRows(m) ==
    {k \in DOMAIN m.csv :
        /\ m.csv[k].valid
        /\ \/ m.min_last_activity = NoTime
           \/ isna(m.csv[k].LastActivityDate)
           \/ m.csv[k].LastActivityDate >= m.min_last_activity}

\* C23: no yielded batch is empty or longer than batch_size; the batches put
\* end to end are in non-increasing LastActivityDate with the rows without a
\* date last and hold no row twice; and when the run is over they hold every
\* valid row of the filtered file.
C23_BatchesAreSortedSlices ==
    LET all == Flatten(meta.yielded)
    IN  /\ \A b \in DOMAIN meta.yielded :
              /\ meta.yielded[b] # <<>>
              /\ Len(meta.yielded[b]) <= meta.batch_size
        /\ ActivityOrdered(all)
        /\ \A a, b \in DOMAIN all : a # b => all[a].Id # all[b].Id
        /\ \A a \in DOMAIN all : all[a].Id \in ExpectedRows(meta)
                                 /\ all[a] = meta.csv[all[a].Id]
        /\ meta.pc = "done"
              => \A k \in ExpectedRows(meta) : Kept(meta.csv[k], all)

\* C23 witness: a file whose rows come oldest-known last in reverse (no date,
\* then date 1, then the latest date), all valid, read in slices of two: the
\* batches are the two dated rows latest first, then the row without a date.
C23_Witness ==
    /\ meta.pc = "done"
    /\ meta.batch_size = 2
    /\ Len(meta.csv) = 3
    /\ isna(meta.csv[1].LastActivityDate)
    /\ meta.csv[2].LastActivityDate = 1
    /\ meta.csv[3].LastActivityDate = MaxStamp
    /\ meta.yielded = << <<meta.csv[3], meta.csv[2]>>, <<meta.csv[1]>> >>

\* the states from which no further transition is drawn
TerminalStatuses == {ENRICHED, FAILED, SKIPPED}

\* C29: every change of the enrichment_status of a stored row follows
\* minimal -> pending -> enriching -> enriched: a row becomes enriching only
\* from pending, enriched only from enriching, and failed or skipped only from
\* a state that is not terminal.
C29_StatusStateMachine ==
    [][ \A i \in DOMAIN datasets :
           LET old == datasets[i].enrichment_status
               new == datasets'[i].enrichment_status
           IN  new # old =>
                 /\ new = ENRICHING => old = PENDING
                 /\ new = ENRICHED => old = ENRICHING
                 /\ new \in {FAILED, SKIPPED} => old \notin TerminalStatuses
      ]_vars

\* C30: a page that arrived with valid records, none of them older than the
\* cutoff, has those records yielded as one batch by the turn of the loop that
\* handles it, whether the page is full or undersized.
C30_ShortPageYielded ==
    [][ LET processed == _process_raw_batch(hf.raw_data, hf.min_last_modified)
        IN  (HandlePage /\ ~processed[2] /\ processed[1] # <<>>)
               => hf'.yielded = Append(hf.yielded, processed[1])
      ]_vars

\* the natural keys the table holds
StoredKeys(tbl) == {Key(tbl[i]) : i \in DOMAIN tbl}

\* C24: a Dataset row is never deleted: under the operations the store exposes
\* on Dataset, a natural key that is stored stays stored.
C24_KeysNeverShrink ==
    [][ StoredKeys(datasets) \subseteq StoredKeys(datasets') ]_vars

\* the log_enrichment calls made so far for the dataset and stage
LogCallsFor(dataset_id, stage) ==
    Cardinality({c \in DOMAIN log_calls : log_calls[c] = <<dataset_id, stage>>})

\* C25: the enrichment log is append-only: no operation changes or removes a
\* row log_enrichment wrote, and count_attempts_by_dataset(id, stage) is the
\* number of log_enrichment calls made so far for that id and stage.
C25_LogAppendOnly ==
    [][ /\ \A i \in DOMAIN enrichment_logs :
              /\ i \in DOMAIN enrichment_logs'
              /\ enrichment_logs'[i] = enrichment_logs[i]
        /\ \A dataset_id \in 1..MaxRows, stage \in Stages :
              count_attempts_by_dataset(enrichment_logs', dataset_id, stage)
                 = LogCallsFor(dataset_id, stage)'
      ]_vars

C27_SeedPersisted ==
    seed.pc = "done" =>
        /\ \A k \in DOMAIN Flatten(meta.yielded) :
              \E i \in DOMAIN datasets :
                 /\ datasets[i].source_name = "kaggle"
                 /\ datasets[i].external_id = external_id(Flatten(meta.yielded)[k])
                 /\ datasets[i].enrichment_status = MINIMAL
        /\ seed.total_fetched = Len(Flatten(meta.yielded))

\* C28: when the embed job completes for datasets in enriched status lacking an
\* embedding, each of them has an embedding stored, and processed is the
\* number of datasets whose embedding was written.
C28_EmbeddingsWritten ==
    embed.pc = "done" =>
        /\ \A k \in DOMAIN embed.dataset_ids :
              \A i \in WhereId(datasets, embed.dataset_ids[k]) :
                 datasets[i].embedding # None
        /\ embed.processed =
              Cardinality({i \in DOMAIN datasets :
                             /\ \E k \in DOMAIN embed.dataset_ids :
                                   datasets[i].id = embed.dataset_ids[k]
                             /\ datasets[i].embedding # None})

\* C37: the enrichment_attempts of a stored row never decreases under upsert,
\* bulk_upsert, mark_enriching, mark_enriched and mark_failed, and a statement
\* that changes it is a mark_enriching, which adds one.
C37_AttemptsNeverDecrease ==
    [][ \A i \in DOMAIN datasets :
           /\ datasets'[i].enrichment_attempts >= datasets[i].enrichment_attempts
           /\ datasets'[i].enrichment_attempts # datasets[i].enrichment_attempts
                 => /\ datasets'[i].enrichment_attempts
                          = datasets[i].enrichment_attempts + 1
                    /\ \E id \in Ids : mark_enriching(id)
      ]_vars

\* C37 witness: a row created with no attempt, marked enriching twice, that an
\* upsert proposing status skipped and one attempt has then rewritten: it is
\* skipped and still has two attempts.
C37_Witness ==
    \E i \in DOMAIN datasets :
        /\ created_with[i] = 0
        /\ enriching_calls[i] = 2
        /\ datasets[i].enrichment_status = SKIPPED
        /\ datasets[i].enrichment_attempts = 2

C39_TotalIsSumOfStatuses ==
    stats.pc = "done" =>
        stats.total = stats.minimal + stats.pending + stats.enriching
                         + stats.enriched + stats.failed

\* C33: fetch_single_dataset gives up on a reference whose dataset_view call
\* failed only after MAX_RETRY_ATTEMPTS calls of dataset_view for it.
C33_DetailFetchRetried ==
    (hydrate.pc = "count" /\ hydrate.view = "error")
        => hydrate.attempts = MAX_RETRY_ATTEMPTS

\* C35: in the hydrate job a throttle pause lies between any two consecutive
\* calls of enrich_dataset_by_ref: n calls were separated by at least n - 1
\* pauses.
C35_ThrottleBetweenCalls ==
    Len(hydrate.calls) >= 2 => hydrate.sleeps >= Len(hydrate.calls) - 1

\* C34: when a listing-page request of the Kaggle incremental fetcher raised
\* an error, the batch sequence does not end normally.
C34_PageFailurePropagates ==
    latest.page_failed => latest.pc # "done"

\* C36: once download_if_needed has run, no download was made when the file
\* was cached and force is false, and exactly one was made when the file was
\* absent or force is true; until it has run no batch was produced.
C36_DownloadOnlyIfNeeded ==
    /\ seed.pc \in {"iterate", "raised", "done"}
          => seed.downloads = IF seed.csv_cached /\ ~seed.force_redownload
                              THEN 0 ELSE 1
    /\ seed.pc = "download"
          => (seed.downloads = 0 /\ meta.pc = "idle" /\ meta.yielded = <<>>)

\* C36 witness: a job started with a cached file and force_redownload, which
\* downloaded once and then took two batches.
C36_Witness ==
    /\ seed.pc = "done"
    /\ seed.csv_cached
    /\ seed.force_redownload
    /\ seed.downloads = 1
    /\ seed.received = 2

\* C31: with two orchestrator runs that each select work with
\* get_pending_for_enrichment and then call mark_enriching, no state has both
\* runs between their mark_enriching and their mark_enriched or mark_failed
\* for the same dataset id.
C31_SingleWriterPerDataset ==
    \A r1, r2 \in Workers :
        (/\ r1 # r2
         /\ workers[r1].pc = "enriching"
         /\ workers[r2].pc = "enriching")
            => workers[r1].picked # workers[r2].picked

\* what is left of a call of fetch_latest_datasets: the records of the listing
\* from offset on, and within one turn of the loop the steps to its end (the
\* loop test, at most STOP_AFTER_ATTEMPT GETs, the handling of the page)
HFRemaining(h) ==
    IF h.pc \in {"done", "raised"} THEN 0
    ELSE (Len(h.catalog) - h.offset) * (STOP_AFTER_ATTEMPT + 3)
         + (CASE h.pc = "loop"  -> STOP_AFTER_ATTEMPT + 3
              [] h.pc = "fetch" -> STOP_AFTER_ATTEMPT + 3 - h.attempt
              [] h.pc = "page"  -> 1)

\* the pages requested so far are pages of the listing, and no page was asked
\* for more than STOP_AFTER_ATTEMPT times
HFRequestsBounded(h) ==
    /\ h.offset <= Len(h.catalog)
    /\ h.offset % h.batch_size = 0
    /\ h.attempt <= STOP_AFTER_ATTEMPT
    /\ \A b \in DOMAIN h.yielded : \A i \in DOMAIN h.yielded[b] :
          h.yielded[b][i].valid

\* C40: fetch_latest_datasets terminates for every limit when the endpoint
\* keeps answering: every step of a call brings it closer to its end, the
\* offset never passes the end of the listing and no page is requested more
\* than STOP_AFTER_ATTEMPT times; a yielded record passed validation; the loop
\* ends on a full page only when a valid record of it is older than the
\* cutoff or the limit is reached; and a full page whose records all fail
\* validation yields nothing and moves the offset to the next page.
C40_FetchTerminates ==
    [][ /\ HFRequestsBounded(hf) /\ HFRequestsBounded(hf')
        /\ HFRemaining(hf') < HFRemaining(hf)
        /\ (hf.pc = "page" /\ Len(hf.raw_data) = hf.batch_size)
              => /\ hf'.pc = "done"
                    => \E i \in DOMAIN hf.raw_data :
                          /\ hf.raw_data[i].valid
                          /\ _is_dataset_too_old(hf.raw_data[i],
                                                 hf.min_last_modified)
                 /\ (\A i \in DOMAIN hf.raw_data : ~hf.raw_data[i].valid)
                       => /\ hf'.pc = "loop"
                          /\ hf'.offset = hf.offset + hf.batch_size
                          /\ hf'.yielded = hf.yielded
                          /\ hf'.fetched_count = hf.fetched_count
      ]_vars

\* C40 witness: a call with limit 1 and a cutoff met a full page whose only
\* record failed validation, moved on, yielded the valid record of the next
\* page and ended at the loop test.
C40_Witness ==
    /\ hf.pc = "done"
    /\ hf.limit = 1
    /\ hf.batch_size = 1
    /\ hf.min_last_modified # NoTime
    /\ Len(hf.catalog) = 3
    /\ ~hf.catalog[1].valid
    /\ hf.offset = 2
    /\ Len(hf.yielded) = 1
    /\ hf.fetched_count = 1

\* a row at the attempt ceiling that is still waiting: active, in minimal,
\* pending or enriching
AtCeilingUnfinished(row) ==
    /\ row.enrichment_attempts >= DEFAULT_MAX_ATTEMPTS
    /\ row.enrichment_status \in {MINIMAL, PENDING, ENRICHING}
    /\ row.is_active

\* C32: a dataset whose attempts reached the ceiling without a successful
\* enrichment is eventually marked failed and deactivated: no run keeps a row
\* with enrichment_attempts >= max_attempts in minimal, pending or enriching
\* with is_active = true for ever.
C32_CeilingEndsInFailed ==
    \A i \in 1..MaxQueryRows :
        ~<>[](i \in DOMAIN datasets /\ AtCeilingUnfinished(datasets[i]))

==============================================================================
